---- MODULE Spec2Model ----
(***************************************************************************)
(* simpple-vm: exception dispatch and MMIO emulation pipeline.             *)
(*                                                                         *)
(* The module holds one state machine per component:                       *)
(*   SpecMem   SharedMemory::add_segment (src/mems/shared.rs)              *)
(*   SpecMemAccess  SharedMemory reads and writes over fixed segments      *)
(*   SpecMemAligned SharedMemory read_aligned and write_aligned            *)
(*   SpecMmio  MmioManager  (src/devices/mmio.rs)                          *)
(*   SpecRegister   MmioManager::register_device alone                     *)
(*   SpecUart  the PL011 (src/devices/uart.rs), transmit side              *)
(*   SpecUartRx     the PL011, receive side, registers and error returns   *)
(*   SpecGpio  the PL061 (src/devices/gpio.rs)                             *)
(*   SpecDec   syndrome decoders (src/regs/...)                            *)
(*   SpecSpsr  the SpsrEl3 accessors (src/regs/spsr_el3.rs)                *)
(*   Spec      the vCPU run loop of main.rs, which uses the decoders and   *)
(*             the MmioManager                                             *)
(* A specification leaves the variables of the other components at their   *)
(* initial values.                                                         *)
(***************************************************************************)
EXTENDS Integers, Sequences, FiniteSets, TLC

VARIABLES
    segments,    \* SharedMemory.segments: Vec<Segment>, as <<[base, size]>>
    bytes,       \* Segment.memory of each segment, in the order of segments
    memResult,   \* outcome of the last SharedMemory call
    regions,     \* MmioManager.regions: BTreeMap<u64, MmioRegion>, base -> region
    nextDev,     \* identity of the next device handed to register_device
    devReg,      \* per device: the state of the device (one register)
    mmioResult,  \* outcome of the last MmioManager call
    uart,        \* the Pl011Device: its fields, and the bytes its sink holds
    uartResult,  \* outcome of the last call on the Pl011Device
    gpio,        \* the Pl061Gpio: its four registers
    gpioResult,  \* outcome of the last call on the Pl061Gpio
    word,        \* decoders: the raw ISS word handed to from_raw
    decoded,     \* decoders: what the decoder returned for word
    spsr,        \* the SpsrEl3 value, as the set of its one-bits; in the run
                 \* loop the value installed as CPSR
    spsrResult,  \* the last SpsrEl3 method called, with the value before it
    loc,         \* run loop: "run" (about to call vcpu.run()), "handle"
                 \* (an exit is being serviced), "exited", "panicked"
    pc,          \* guest PC register
    gpr,         \* guest X0..X30
    exit,        \* the last exit vcpu.run() returned, with the guest
                 \* registers at that moment
    busLog,      \* MmioManager calls made while servicing the last exit
    outcome      \* how the process ended: result of run(), exit code

memVars == <<segments, bytes, memResult>>
mmioVars == <<regions, nextDev, devReg, mmioResult>>
uartVars == <<uart, uartResult>>
gpioVars == <<gpio, gpioResult>>
decVars == <<word, decoded, spsr, spsrResult>>
runVars == <<loc, pc, gpr, exit, busLog, outcome>>

vars == <<segments, bytes, memResult, regions, nextDev, devReg, mmioResult,
          uart, uartResult, gpio, gpioResult,
          word, decoded, spsr, spsrResult, loc, pc, gpr, exit, busLog, outcome>>

(***************************************************************************)
(* Bounds                                                                  *)
(***************************************************************************)
\* largest usize of the modelled address space (usize::MAX, scaled down so
\* that saturating_add saturates within the explored ranges)
USIZE_MAX == 9
\* largest size passed to add_segment
MaxSegSize == 4
\* number of add_segment calls that are explored
MaxSegments == 3

\* largest guest-physical address handed to the MmioManager on its own
MaxAddr == 11
\* number of register_device calls that are explored next to bus accesses
MaxDevices == 2
\* number of register_device calls that are explored on their own
MaxRegistrations == 3

\* base addresses handed to register_device
RegisterBases == {0, 4, 8}
\* region lengths reported by MmioDevice::get_size
DeviceSizes == {0, 3, 8}
\* access sizes handed to handle_read / handle_write
AccessSizes == {0, 1, 2, 3, 4, 8, 16}
\* values written through handle_write
WriteValues == {1}

Min(a, b) == IF a < b THEN a ELSE b

\* usize::saturating_add
SatAdd(a, b) == Min(a + b, USIZE_MAX)

SetMax(S) == CHOOSE x \in S : \A y \in S : y <= x

SetMin(S) == CHOOSE x \in S : \A y \in S : x <= y

\* bits hi..lo of an integer word (the getters generated by bitfield!)
Field(w, hi, lo) == (w \div 2^lo) % 2^(hi - lo + 1)

\* a 64-bit word is held as the set of its one-bits
ToBitset(v, lo, width) ==
    {lo + i : i \in {j \in 0..(width - 1) : (v \div 2^j) % 2 = 1}}

RECURSIVE BitsetField(_, _, _)
\* bits hi..lo of a 64-bit word
BitsetField(S, hi, lo) ==
    IF hi < lo THEN 0
    ELSE (IF hi \in S THEN 2^(hi - lo) ELSE 0) + BitsetField(S, hi - 1, lo)

(***************************************************************************)
(* SharedMemory                                                            *)
(***************************************************************************)
NoCall == [op |-> "none"]

OverlapsNoEnclosing(base, size, segment) ==
    LET end     == SatAdd(base, size)
        seg_end == SatAdd(segment.base, segment.size)
    IN  \/ (base >= segment.base /\ base < seg_end)
        \/ (end > segment.base /\ end <= seg_end)

\* the overlap test of add_segment for one existing segment
Overlaps(base, size, segment) ==
    LET end     == SatAdd(base, size)
        seg_end == SatAdd(segment.base, segment.size)
    IN  \/ (base >= segment.base /\ base < seg_end)
        \/ (end > segment.base /\ end <= seg_end)
        \/ (base <= segment.base /\ end >= seg_end)

\* SharedMemory::add_segment: the overlap loop runs before the size check
AddSegmentResult(segs, base, size) ==
    IF \E i \in 1..Len(segs) : Overlaps(base, size, segs[i])
    THEN "RegionOverlap"
    ELSE IF size = 0 THEN "InvalidSize"
    ELSE "Ok"

\* Segment::new: size zero bytes
SegmentNew(size) == [j \in 1..size |-> 0]

AddSegment ==
    /\ Len(segments) < MaxSegments
    /\ \E base \in 0..USIZE_MAX, size \in 0..MaxSegSize :
          LET res == AddSegmentResult(segments, base, size)
          IN  /\ segments' = IF res = "Ok"
                             THEN Append(segments,
                                         [base |-> base, size |-> size])
                             ELSE segments
              /\ bytes' = IF res = "Ok"
                          THEN Append(bytes, SegmentNew(size))
                          ELSE bytes
              /\ memResult' = [op |-> "add_segment", base |-> base,
                               size |-> size, res |-> res, pre |-> segments]
    /\ UNCHANGED <<mmioVars, decVars, uartVars, gpioVars, runVars>>

\* Segment::contains
SegmentContains(segment, address, size) ==
    /\ address >= segment.base
    /\ SatAdd(address, size) <= SatAdd(segment.base, segment.size)

\* Segment::get_offset: -1 stands for None
SegmentGetOffset(segment, address) ==
    IF address >= segment.base
       /\ address < SatAdd(segment.base, segment.size)
    THEN address - segment.base
    ELSE -1

\* SharedMemory::find_segment: the index of the first segment that contains
\* the range, 0 when there is none (SegmentationFault)
FindSegment(segs, address, size) ==
    LET hits == {i \in 1..Len(segs) : SegmentContains(segs[i], address, size)}
    IN  IF hits = {} THEN 0 ELSE SetMin(hits)

\* where the slice memory[offset..offset + size] of a found segment lies;
\* unwrap of None and a slice running past the end of the memory panic
SliceOf(segs, mem, address, size) ==
    LET i == FindSegment(segs, address, size)
    IN  IF i = 0 THEN [res |-> "SegmentationFault", seg |-> 0, offset |-> 0]
        ELSE LET offset == SegmentGetOffset(segs[i], address)
             IN  IF offset = -1 \/ offset + size > Len(mem[i])
                 THEN [res |-> "panic", seg |-> i, offset |-> 0]
                 ELSE [res |-> "Ok", seg |-> i, offset |-> offset]

\* SharedMemory::read_bytes
ReadBytesResult(segs, mem, address, size) ==
    IF size = 0 THEN [res |-> "Ok", data |-> <<>>]
    ELSE LET at == SliceOf(segs, mem, address, size)
         IN  IF at.res # "Ok" THEN [res |-> at.res, data |-> <<>>]
             ELSE [res |-> "Ok",
                   data |-> SubSeq(mem[at.seg], at.offset + 1, at.offset + size)]

\* SharedMemory::write_bytes: the result and the memories after the call
WriteBytesResult(segs, mem, address, data) ==
    LET size == Len(data)
    IN  IF size = 0 THEN [res |-> "Ok", mem |-> mem]
        ELSE LET at == SliceOf(segs, mem, address, size)
             IN  IF at.res # "Ok" THEN [res |-> at.res, mem |-> mem]
                 ELSE [res |-> "Ok",
                       mem |-> [mem EXCEPT ![at.seg] =
                                  [j \in 1..Len(mem[at.seg]) |->
                                      IF j > at.offset /\ j <= at.offset + size
                                      THEN data[j - at.offset]
                                      ELSE mem[at.seg][j]]]]

\* uN::to_le_bytes of a value held as the set of its one-bits
ToLeBytes(value, width) ==
    [i \in 1..width |-> BitsetField(value, 8 * i - 1, 8 * (i - 1))]

\* uN::from_le_bytes
FromLeBytes(data) ==
    UNION {ToBitset(data[i], 8 * (i - 1), 8) : i \in 1..Len(data)}

\* SharedMemory::read::<uN>, width = size_of::<uN>()
ReadResult(segs, mem, address, width) ==
    LET got == ReadBytesResult(segs, mem, address, width)
    IN  IF got.res # "Ok" THEN [res |-> got.res, value |-> {}]
        ELSE [res |-> "Ok", value |-> FromLeBytes(got.data)]

\* SharedMemory::write::<uN>
WriteResult(segs, mem, address, value, width) ==
    WriteBytesResult(segs, mem, address, ToLeBytes(value, width))

AlignOfByte(width) == 1

\* align_of::<uN>() for the type of size width: u8, u16, u32 and u64 are
\* aligned to their size
AlignOf(width) == width

\* SharedMemory::read_aligned::<uN>
ReadAlignedResult(segs, mem, address, width) ==
    IF address % AlignOf(width) # 0
    THEN [res |-> "InvalidAlignment", value |-> {}]
    ELSE ReadResult(segs, mem, address, width)

\* SharedMemory::write_aligned::<uN>
WriteAlignedResult(segs, mem, address, value, width) ==
    IF address % AlignOf(width) # 0
    THEN [res |-> "InvalidAlignment", mem |-> mem]
    ELSE WriteResult(segs, mem, address, value, width)

\* size_of::<uN>() for u8, u16, u32, u64
TypeWidths == {1, 2, 4, 8}
\* values written by typed writes: the value whose top byte is 1
TypedValues(width) == {{8 * (width - 1)}}
\* byte strings handed to write_bytes
ByteStrings == {<<>>, <<1, 1>>, <<0, 1, 0>>}
\* lengths handed to read_bytes
ReadLens == {0, 1, 2, 3}
\* addresses handed to the accessors: the bottom and the top of the address
\* space
AccessAddrs == {0, 1, 2, 3, USIZE_MAX - 1, USIZE_MAX}

ReadBytes ==
    /\ \E address \in AccessAddrs, size \in ReadLens :
          LET got == ReadBytesResult(segments, bytes, address, size)
          IN  memResult' = [op |-> "read_bytes", addr |-> address,
                            size |-> size, res |-> got.res, data |-> got.data,
                            pre |-> bytes]
    /\ UNCHANGED <<segments, bytes, mmioVars, decVars, uartVars, gpioVars,
                   runVars>>

WriteBytes ==
    /\ \E address \in AccessAddrs, data \in ByteStrings :
          LET done == WriteBytesResult(segments, bytes, address, data)
          IN  /\ bytes' = done.mem
              /\ memResult' = [op |-> "write_bytes", addr |-> address,
                               size |-> Len(data), res |-> done.res,
                               data |-> data, pre |-> bytes]
    /\ UNCHANGED <<segments, mmioVars, decVars, uartVars, gpioVars, runVars>>

Read ==
    /\ \E address \in AccessAddrs, width \in TypeWidths :
          LET got == ReadResult(segments, bytes, address, width)
          IN  memResult' = [op |-> "read", addr |-> address, size |-> width,
                            res |-> got.res, value |-> got.value,
                            pre |-> bytes]
    /\ UNCHANGED <<segments, bytes, mmioVars, decVars, uartVars, gpioVars,
                   runVars>>

Write ==
    /\ \E address \in AccessAddrs, width \in TypeWidths :
          \E value \in TypedValues(width) :
             LET done == WriteResult(segments, bytes, address, value, width)
             IN  /\ bytes' = done.mem
                 /\ memResult' = [op |-> "write", addr |-> address,
                                  size |-> width, res |-> done.res,
                                  value |-> value, pre |-> bytes]
    /\ UNCHANGED <<segments, mmioVars, decVars, uartVars, gpioVars, runVars>>

ReadAligned ==
    /\ \E address \in AccessAddrs, width \in TypeWidths :
          LET got == ReadAlignedResult(segments, bytes, address, width)
          IN  memResult' = [op |-> "read_aligned", addr |-> address,
                            size |-> width, res |-> got.res,
                            value |-> got.value, pre |-> bytes]
    /\ UNCHANGED <<segments, bytes, mmioVars, decVars, uartVars, gpioVars,
                   runVars>>

WriteAligned ==
    /\ \E address \in AccessAddrs, width \in TypeWidths :
          \E value \in TypedValues(width) :
             LET done == WriteAlignedResult(segments, bytes, address, value,
                                            width)
             IN  /\ bytes' = done.mem
                 /\ memResult' = [op |-> "write_aligned", addr |-> address,
                                  size |-> width, res |-> done.res,
                                  value |-> value, pre |-> bytes]
    /\ UNCHANGED <<segments, mmioVars, decVars, uartVars, gpioVars, runVars>>

RECURSIVE SegmentsAfter(_)
\* the segments recorded by a sequence of add_segment calls <<base, size>>
SegmentsAfter(calls) ==
    IF calls = <<>> THEN <<>>
    ELSE LET segs == SegmentsAfter(SubSeq(calls, 1, Len(calls) - 1))
             call == calls[Len(calls)]
         IN  IF AddSegmentResult(segs, call[1], call[2]) = "Ok"
             THEN Append(segs, [base |-> call[1], size |-> call[2]])
             ELSE segs

\* the add_segment calls made before memory is accessed: one segment of
\* eight bytes, two adjacent segments, a segment that ends at the top of
\* the address space
SetupCalls ==
    {<< <<0, 8>> >>, << <<0, 2>>, <<2, 2>> >>, << <<USIZE_MAX - 1, 2>> >>}

(***************************************************************************)
(* MmioManager                                                             *)
(***************************************************************************)
RECURSIVE BitAnd(_, _)
\* a & b on unsigned integers
BitAnd(a, b) ==
    IF a = 0 \/ b = 0 THEN 0
    ELSE (a % 2) * (b % 2) + 2 * BitAnd(a \div 2, b \div 2)


NoRegion == [base_addr |-> 0, size |-> 0, device |-> 0]

FindOverlapNextOnly(regs, base, size) ==
    LET new_end == base + size
        above   == {b \in DOMAIN regs : b >= base}
        next    == IF above = {} THEN NoRegion ELSE regs[SetMin(above)]
    IN  IF above # {} /\ next.base_addr < new_end
        THEN <<next.base_addr, next.base_addr + next.size>>
        ELSE <<>>

\* MmioManager::find_overlap: the first region at or above base, then the
\* last region below base; <<>> stands for None
FindOverlap(regs, base, size) ==
    LET new_end == base + size
        above   == {b \in DOMAIN regs : b >= base}
        below   == {b \in DOMAIN regs : b < base}
        next    == IF above = {} THEN NoRegion ELSE regs[SetMin(above)]
        prev    == IF below = {} THEN NoRegion ELSE regs[SetMax(below)]
    IN  IF above # {} /\ next.base_addr < new_end
        THEN <<next.base_addr, next.base_addr + next.size>>
        ELSE IF below # {} /\ prev.base_addr + prev.size > base
        THEN <<prev.base_addr, prev.base_addr + prev.size>>
        ELSE <<>>

\* BTreeMap::insert: an entry with the same key is replaced
MapInsert(regs, base, region) ==
    [b \in (DOMAIN regs) \cup {base} |-> IF b = base THEN region ELSE regs[b]]

\* MmioManager::register_device
RegisterDeviceResult(regs, base, size) ==
    IF FindOverlap(regs, base, size) # <<>> THEN "OverlappingRegion" ELSE "Ok"

RegisterDeviceRegions(regs, base, size, device) ==
    IF RegisterDeviceResult(regs, base, size) = "Ok"
    THEN MapInsert(regs, base,
                   [base_addr |-> base, size |-> size, device |-> device])
    ELSE regs

\* MmioManager::find_region: the last region with base <= addr, if addr lies
\* inside it
FindRegion(regs, addr) ==
    LET below == {b \in DOMAIN regs : b <= addr}
    IN  IF below = {} THEN [res |-> "UnmappedAccess", addr |-> addr]
        ELSE LET region == regs[SetMax(below)]
             IN  IF addr >= region.base_addr
                    /\ addr < region.base_addr + region.size
                 THEN [res |-> "Ok", region |-> region]
                 ELSE [res |-> "UnmappedAccess", addr |-> addr]

LocateMappingFirst(regs, addr, size) ==
    LET found == FindRegion(regs, addr)
    IN  IF found.res # "Ok" THEN found
        ELSE IF ~(size \in {1, 2, 4, 8})
        THEN [res |-> "InvalidSize", size |-> size]
        ELSE IF BitAnd(addr, size - 1) # 0
        THEN [res |-> "InvalidAlignment", addr |-> addr, size |-> size]
        ELSE IF (addr - found.region.base_addr) + size > found.region.size
        THEN [res |-> "UnmappedAccess", addr |-> addr]
        ELSE found

LocateNoBounds(regs, addr, size) ==
    IF ~(size \in {1, 2, 4, 8})
    THEN [res |-> "InvalidSize", size |-> size]
    ELSE IF BitAnd(addr, size - 1) # 0
    THEN [res |-> "InvalidAlignment", addr |-> addr, size |-> size]
    ELSE FindRegion(regs, addr)

\* MmioManager::locate: size gate, alignment gate, region lookup, bounds
Locate(regs, addr, size) ==
    IF ~(size \in {1, 2, 4, 8})
    THEN [res |-> "InvalidSize", size |-> size]
    ELSE IF BitAnd(addr, size - 1) # 0
    THEN [res |-> "InvalidAlignment", addr |-> addr, size |-> size]
    ELSE LET found == FindRegion(regs, addr)
         IN  IF found.res # "Ok" THEN found
             ELSE IF (addr - found.region.base_addr) + size > found.region.size
             THEN [res |-> "UnmappedAccess", addr |-> addr]
             ELSE found

\* MmioDevice::read / write of a device that holds one register: a read
\* returns the register, a write stores the value
DeviceRead(reg, size) == [res |-> "Ok", val |-> reg, reg |-> reg]

DeviceWrite(reg, size, value) == [res |-> "Ok", val |-> 0, reg |-> value]

\* MmioManager::handle_read / handle_write: the record of one call; outOf
\* gives, per device, what the device answers when it is invoked
BusCall(op, regs, addr, size, value, outOf) ==
    LET found == Locate(regs, addr, size)
    IN  IF found.res = "Ok"
        THEN LET device == found.region.device
                 offset == addr - found.region.base_addr
                 out    == outOf[device]
             IN  [op |-> op, addr |-> addr, size |-> size, value |-> value,
                  res |-> out.res, val |-> out.val, err |-> [res |-> out.res],
                  invoked |-> {[device |-> device, offset |-> offset,
                                size |-> size, value |-> value]}]
        ELSE [op |-> op, addr |-> addr, size |-> size, value |-> value,
              res |-> found.res, val |-> 0, err |-> found, invoked |-> {}]

RegsAfterBroadcast(call, dregs, outOf) ==
    [d \in DOMAIN dregs |->
        IF call.invoked # {} THEN outOf[d].reg ELSE dregs[d]]

\* the device registers after a call
RegsAfter(call, dregs, outOf) ==
    [d \in DOMAIN dregs |->
        IF \E i \in call.invoked : i.device = d
        THEN outOf[d].reg ELSE dregs[d]]

RegisterDevice ==
    /\ \E base \in RegisterBases, size \in DeviceSizes :
          /\ regions' = RegisterDeviceRegions(regions, base, size, nextDev)
          /\ mmioResult' = [op |-> "register_device", base |-> base,
                            size |-> size, device |-> nextDev,
                            res |-> RegisterDeviceResult(regions, base, size),
                            pre |-> regions]
    /\ nextDev' = nextDev + 1
    /\ devReg' = [d \in (DOMAIN devReg) \cup {nextDev} |->
                     IF d = nextDev THEN 0 ELSE devReg[d]]
    /\ UNCHANGED <<memVars, decVars, uartVars, gpioVars, runVars>>

HandleRead ==
    /\ \E addr \in 0..MaxAddr, size \in AccessSizes :
          LET outOf == [d \in DOMAIN devReg |-> DeviceRead(devReg[d], size)]
              call  == BusCall("handle_read", regions, addr, size, 0, outOf)
          IN  /\ mmioResult' = call
              /\ devReg' = RegsAfter(call, devReg, outOf)
    /\ UNCHANGED <<regions, nextDev>>
    /\ UNCHANGED <<memVars, decVars, uartVars, gpioVars, runVars>>

HandleWrite ==
    /\ \E addr \in 0..MaxAddr, size \in AccessSizes, value \in WriteValues :
          LET outOf == [d \in DOMAIN devReg |->
                           DeviceWrite(devReg[d], size, value)]
              call  == BusCall("handle_write", regions, addr, size, value,
                               outOf)
          IN  /\ mmioResult' = call
              /\ devReg' = RegsAfter(call, devReg, outOf)
    /\ UNCHANGED <<regions, nextDev>>
    /\ UNCHANGED <<memVars, decVars, uartVars, gpioVars, runVars>>

(***************************************************************************)
(* PL011 UART (devices/uart.rs)                                            *)
(* Register values and bus values are held as the sets of their one-bits.  *)
(***************************************************************************)
UARTDR == 0
UARTFR == 24
UARTLCR_H == 44
UARTCR == 48
UARTIMSC == 56
UARTICR == 68
UART_PERIPH_ID_BASE == 4064

\* bit numbers of the flag, line-control and control register bits
FLAG_TXFE == 7
FLAG_RXFF == 6
FLAG_TXFF == 5
FLAG_RXFE == 4
LCR_H_FEN == 4
CR_RXE == 9
CR_TXE == 8
CR_UARTEN == 0

PL011_FIFO_DEPTH == 16

PL011_PERIPHERAL_ID == <<17, 16, 20, 0, 13, 240, 5, 177>>

\* the casts value as u8, value as u32 and u64::from
AsU8(value) == BitsetField(value, 7, 0)

AsU32(value) == value \cap (0..31)

FromU8(byte) == ToBitset(byte, 0, 8)

Pl011_update_status_stale(u) == u

\* Pl011Device::update_status
Pl011_update_status(u) ==
    [u EXCEPT !.flags =
        (u.flags \ {FLAG_RXFE, FLAG_RXFF, FLAG_TXFE, FLAG_TXFF})
        \cup (IF u.rx_fifo = <<>> THEN {FLAG_RXFE} ELSE {})
        \cup (IF Len(u.rx_fifo) >= u.rx_fifo_size THEN {FLAG_RXFF} ELSE {})
        \cup (IF u.tx_fifo = <<>> THEN {FLAG_TXFE} ELSE {})
        \cup (IF Len(u.tx_fifo) >= u.tx_fifo_size THEN {FLAG_TXFF} ELSE {})]

\* Pl011Device::new; output holds the bytes the sink has received
Pl011Device_new ==
    Pl011_update_status(
        [rx_fifo |-> <<>>, tx_fifo |-> <<>>,
         flags |-> {FLAG_TXFE, FLAG_RXFE}, lcr_h |-> {},
         cr |-> {CR_TXE, CR_RXE}, imsc |-> {},
         fifo_enabled |-> FALSE, rx_fifo_size |-> 1, tx_fifo_size |-> 1,
         line_buffer |-> <<>>, output |-> <<>>])

Pl011_input_data_unbounded(u, data) ==
    Pl011_update_status([u EXCEPT !.rx_fifo = Append(u.rx_fifo, data)])

\* Pl011Device::input_data
Pl011_input_data(u, data) ==
    Pl011_update_status(
        IF Len(u.rx_fifo) < u.rx_fifo_size
        THEN [u EXCEPT !.rx_fifo = Append(u.rx_fifo, data)]
        ELSE u)

\* what the sink does with one write_all followed by flush: it takes the
\* bytes ("ok"), fails in write_all before taking any byte ("write_failed"),
\* or takes the bytes and fails in flush ("flush_failed")
SinkOutcomes == {"ok", "write_failed", "flush_failed"}

\* write_all(&line_buffer)?; flush()?; line_buffer.clear()
Pl011_emit_line(u, sink) ==
    IF sink = "write_failed" THEN u
    ELSE IF sink = "flush_failed"
    THEN [u EXCEPT !.output = u.output \o u.line_buffer]
    ELSE [u EXCEPT !.output = u.output \o u.line_buffer,
                   !.line_buffer = <<>>]

\* Pl011Device::flush_line_buffer, which Drop calls and whose error Drop
\* ignores
Pl011_flush_line_buffer(u, sink) ==
    IF u.line_buffer = <<>> THEN u ELSE Pl011_emit_line(u, sink)

Pl011_handle_transmitted_char_unbuffered(u, byte, sink) ==
    Pl011_emit_line([u EXCEPT !.line_buffer = Append(u.line_buffer, byte)],
                    sink)

\* Pl011Device::handle_transmitted_char: 10 is '\n'
Pl011_handle_transmitted_char(u, byte, sink) ==
    LET pushed == [u EXCEPT !.line_buffer = Append(u.line_buffer, byte)]
    IN  IF byte = 10 THEN Pl011_emit_line(pushed, sink) ELSE pushed

\* Pl011Device::read_dr: the state after the call and the value returned
Pl011_read_dr(u) ==
    [dev |-> Pl011_update_status(
                [u EXCEPT !.rx_fifo = IF u.rx_fifo = <<>> THEN <<>>
                                      ELSE Tail(u.rx_fifo)]),
     val |-> FromU8(IF u.rx_fifo = <<>> THEN 0 ELSE Head(u.rx_fifo))]

Pl011_write_dr_ungated(u, value, sink) ==
    IF Len(u.tx_fifo) < u.tx_fifo_size
    THEN Pl011_update_status(Pl011_handle_transmitted_char(u, value, sink))
    ELSE Pl011_update_status(u)

\* Pl011Device::write_dr: the byte pushed to the TX FIFO is popped again
\* right after it has been handed to handle_transmitted_char
Pl011_write_dr(u, value, sink) ==
    IF ~({CR_UARTEN, CR_TXE} \subseteq u.cr) THEN u
    ELSE IF Len(u.tx_fifo) < u.tx_fifo_size
    THEN Pl011_update_status(Pl011_handle_transmitted_char(u, value, sink))
    ELSE Pl011_update_status(u)

\* Pl011Device::write_lcr_h
Pl011_write_lcr_h(u, value) ==
    LET requested == LCR_H_FEN \in value
        depth     == IF requested THEN PL011_FIFO_DEPTH ELSE 1
    IN  IF requested # u.fifo_enabled
        THEN Pl011_update_status(
                [u EXCEPT !.lcr_h = value, !.fifo_enabled = requested,
                          !.rx_fifo_size = depth, !.tx_fifo_size = depth,
                          !.rx_fifo = <<>>, !.tx_fifo = <<>>])
        ELSE [u EXCEPT !.lcr_h = value]

\* Pl011Device::get_peripheral_id_byte
Pl011_get_peripheral_id_byte(index) ==
    IF index + 1 \in DOMAIN PL011_PERIPHERAL_ID
    THEN PL011_PERIPHERAL_ID[index + 1] ELSE 0

Pl011_size_rejected_never(size) == FALSE

\* the size test at the head of read and of write
Pl011_size_rejected(size) == size # 4

\* <Pl011Device as MmioDevice>::read; arg is what the error carries
Pl011_read(u, offset, size) ==
    IF Pl011_size_rejected(size)
    THEN [res |-> "InvalidSize", arg |-> size, val |-> {}, dev |-> u]
    ELSE IF offset = UARTDR
    THEN [res |-> "Ok", arg |-> 0, val |-> Pl011_read_dr(u).val,
          dev |-> Pl011_read_dr(u).dev]
    ELSE IF offset = UARTFR THEN [res |-> "Ok", arg |-> 0, val |-> u.flags, dev |-> u]
    ELSE IF offset = UARTLCR_H THEN [res |-> "Ok", arg |-> 0, val |-> u.lcr_h, dev |-> u]
    ELSE IF offset = UARTCR THEN [res |-> "Ok", arg |-> 0, val |-> u.cr, dev |-> u]
    ELSE IF offset = UARTIMSC THEN [res |-> "Ok", arg |-> 0, val |-> u.imsc, dev |-> u]
    ELSE IF offset \in {40, 36, 60, 64}
    THEN [res |-> "Ok", arg |-> 0, val |-> {}, dev |-> u]
    ELSE IF offset >= UART_PERIPH_ID_BASE /\ offset <= 4092
    THEN [res |-> "Ok", arg |-> 0,
          val |-> FromU8(Pl011_get_peripheral_id_byte(
                            (offset - UART_PERIPH_ID_BASE) \div 4)),
          dev |-> u]
    ELSE [res |-> "UnmappedAccess", arg |-> offset, val |-> {}, dev |-> u]

\* <Pl011Device as MmioDevice>::write; arg is what the error carries
Pl011_write(u, offset, size, value, sink) ==
    IF Pl011_size_rejected(size)
    THEN [res |-> "InvalidSize", arg |-> size, dev |-> u]
    ELSE IF offset = UARTDR
    THEN [res |-> "Ok", arg |-> 0, dev |-> Pl011_write_dr(u, AsU8(value), sink)]
    ELSE IF offset = UARTLCR_H
    THEN [res |-> "Ok", arg |-> 0, dev |-> Pl011_write_lcr_h(u, AsU32(value))]
    ELSE IF offset = UARTCR
    THEN [res |-> "Ok", arg |-> 0, dev |-> [u EXCEPT !.cr = AsU32(value)]]
    ELSE IF offset = UARTIMSC
    THEN [res |-> "Ok", arg |-> 0, dev |-> [u EXCEPT !.imsc = AsU32(value)]]
    ELSE IF offset \in {UARTICR, UARTFR, 40, 36}
    THEN [res |-> "Ok", arg |-> 0, dev |-> u]
    ELSE [res |-> "UnmappedAccess", arg |-> offset, dev |-> u]

Pl011_reset_keep_cr(u) ==
    Pl011_update_status(
        [u EXCEPT !.rx_fifo = <<>>, !.tx_fifo = <<>>,
                  !.flags = {FLAG_TXFE, FLAG_RXFE}, !.lcr_h = {},
                  !.imsc = {},
                  !.fifo_enabled = FALSE, !.rx_fifo_size = 1,
                  !.tx_fifo_size = 1, !.line_buffer = <<>>])

\* <Pl011Device as MmioDevice>::reset; the sink keeps what it has received
Pl011_reset(u) ==
    Pl011_update_status(
        [u EXCEPT !.rx_fifo = <<>>, !.tx_fifo = <<>>,
                  !.flags = {FLAG_TXFE, FLAG_RXFE}, !.lcr_h = {},
                  !.cr = {CR_TXE, CR_RXE}, !.imsc = {},
                  !.fifo_enabled = FALSE, !.rx_fifo_size = 1,
                  !.tx_fifo_size = 1, !.line_buffer = <<>>])

\* number of bytes held by the sink and the line buffer up to which writes
\* are explored
MaxTx == 3
\* number of bytes in the RX FIFO up to which input_data is explored
MaxRx == 2

\* bytes written to DR: 'H', 'i', '\n', '\r', and 'H' below a set bit 8
DrValues == {ToBitset(72, 0, 8), ToBitset(105, 0, 8), ToBitset(10, 0, 8),
             ToBitset(13, 0, 8), ToBitset(72, 0, 8) \cup {8}}
\* values written to CR: UARTEN|TXE|RXE below a set bit 32, UARTEN alone
CrValues == {{0, 8, 9, 32}, {0}}
\* values written to LCR_H: FEN with WLEN = 8 bits, WLEN alone
LcrValues == {{4, 5, 6}, {5, 6}}

\* the (offset, size, value) triples handed to write
UartWrites ==
    {<<UARTDR, 4, v>> : v \in DrValues}
        \cup {<<UARTCR, 4, v>> : v \in CrValues}
        \cup {<<UARTLCR_H, 4, v>> : v \in LcrValues}
        \cup {<<UARTICR, 4, {4}>>, <<60, 4, {4}>>,
              <<UARTDR, 2, ToBitset(72, 0, 8)>>}

\* the triples handed to write while the receive side is explored: 'H' to
\* DR, the control registers, an offset outside the register map, sizes
\* other than 4
UartRxWrites ==
    {<<UARTDR, 4, ToBitset(72, 0, 8)>>, <<UARTCR, 4, {0, 8, 9, 32}>>,
     <<UARTIMSC, 4, {4, 32}>>, <<256, 4, {4}>>, <<256, 2, {4}>>,
     <<UARTDR, 8, ToBitset(72, 0, 8)>>}
        \cup {<<UARTLCR_H, 4, v>> : v \in LcrValues}

\* the (offset, size) pairs handed to read
UartReads ==
    {<<o, 4>> : o \in {UARTDR, UARTFR, UARTCR, 4092, 256}}
        \cup {<<UARTFR, 1>>}

\* the pairs handed to read while the receive side is explored
UartRxReads ==
    {<<o, 4>> : o \in {UARTDR, UARTFR, UARTLCR_H, UARTCR, UARTIMSC, 64,
                       4068, 256, 68}}
        \cup {<<UARTDR, 1>>, <<256, 8>>}

UartWriteOf(writes) ==
    /\ Len(uart.output) + Len(uart.line_buffer) < MaxTx
    /\ \E w \in writes, sink \in SinkOutcomes :
          LET done == Pl011_write(uart, w[1], w[2], w[3], sink)
          IN  /\ uart' = done.dev
              /\ uartResult' = [op |-> "write", offset |-> w[1],
                                size |-> w[2], value |-> w[3],
                                res |-> done.res, arg |-> done.arg,
                                val |-> {}, sink |-> sink,
                                pre |-> uart]
    /\ UNCHANGED <<memVars, mmioVars, decVars, runVars, gpioVars>>

UartWrite == UartWriteOf(UartWrites)

UartRxWrite == UartWriteOf(UartRxWrites)

UartReadOf(reads) ==
    /\ \E r \in reads :
          LET done == Pl011_read(uart, r[1], r[2])
          IN  /\ uart' = done.dev
              /\ uartResult' = [op |-> "read", offset |-> r[1],
                                size |-> r[2], value |-> {},
                                res |-> done.res, arg |-> done.arg,
                                val |-> done.val,
                                sink |-> "ok", pre |-> uart]
    /\ UNCHANGED <<memVars, mmioVars, decVars, runVars, gpioVars>>

UartRead == UartReadOf(UartReads)

UartRxRead == UartReadOf(UartRxReads)

UartReset ==
    /\ uart' = Pl011_reset(uart)
    /\ uartResult' = [op |-> "reset", offset |-> 0, size |-> 0, value |-> {},
                      res |-> "Ok", arg |-> 0, val |-> {}, sink |-> "ok",
                      pre |-> uart]
    /\ UNCHANGED <<memVars, mmioVars, decVars, runVars, gpioVars>>

\* the bytes handed to input_data
InputBytes == {65}

RxInputBytes == {65, 66}

UartInputDataOf(inputs) ==
    /\ Len(uart.rx_fifo) < MaxRx
    /\ \E data \in inputs :
          /\ uart' = Pl011_input_data(uart, data)
          /\ uartResult' = [op |-> "input_data", offset |-> 0, size |-> 0,
                            value |-> FromU8(data), res |-> "Ok", arg |-> 0,
                            val |-> {}, sink |-> "ok", pre |-> uart]
    /\ UNCHANGED <<memVars, mmioVars, decVars, runVars, gpioVars>>

(***************************************************************************)
(* PL061 GPIO (devices/gpio.rs)                                            *)
(* The four 8-bit registers and the bus values are sets of one-bits.       *)
(***************************************************************************)
GPIODATA == 0
GPIODIR == 1024
GPIOIS == 1028
GPIOIBE == 1032
GPIOIEV == 1036
GPIOIE == 1040
GPIORIS == 1044
GPIOMIS == 1048
GPIOIC == 1052
GPIOAFSEL == 1056
GPIO_PERIPH_ID_BASE == 4064
GPIO_PCELL_ID_BASE == 4080

PL061_IDS == <<97, 16, 4, 0, 13, 240, 5, 177, 13, 240, 5, 177>>

\* Pl061Gpio::new
Pl061Gpio_new ==
    [data |-> {}, direction |-> {}, interrupt_enable |-> {}, afsel |-> {}]

\* Pl061Gpio::get_id_byte
Pl061_get_id_byte(offset) ==
    LET index == offset - GPIO_PERIPH_ID_BASE
    IN  IF index < Len(PL061_IDS) THEN PL061_IDS[index + 1] ELSE 0

\* the size test at the head of read and of write
Pl061_size_rejected(size) ==
    size > 8 \/ size = 0 \/ BitAnd(size, size - 1) # 0

\* <Pl061Gpio as MmioDevice>::read; arg is what the error carries
Pl061_read(g, offset, size) ==
    IF Pl061_size_rejected(size)
    THEN [res |-> "InvalidSize", arg |-> size, val |-> {}]
    ELSE IF offset >= 0 /\ offset <= 1020
    THEN [res |-> "Ok", arg |-> 0, val |-> g.data]
    ELSE IF offset = GPIODIR
    THEN [res |-> "Ok", arg |-> 0, val |-> g.direction]
    ELSE IF offset = GPIOIE
    THEN [res |-> "Ok", arg |-> 0, val |-> g.interrupt_enable]
    ELSE IF offset = GPIOAFSEL
    THEN [res |-> "Ok", arg |-> 0, val |-> g.afsel]
    ELSE IF offset \in {GPIOIS, GPIOIBE, GPIOIEV, GPIORIS, GPIOMIS}
    THEN [res |-> "Ok", arg |-> 0, val |-> {}]
    ELSE IF offset >= GPIO_PERIPH_ID_BASE /\ offset <= 4092
    THEN [res |-> "Ok", arg |-> 0,
          val |-> ToBitset(Pl061_get_id_byte(offset), 0, 8)]
    ELSE [res |-> "Ok", arg |-> 0, val |-> {}]

Pl061_byte_value_wide(value) == value

\* let byte_value = value as u8
Pl061_byte_value(value) == value \cap (0..7)

Pl061_write_data_all_pins(g, offset, byte_value) ==
    LET mask == ToBitset(offset \div 4, 0, 8)
    IN  [g EXCEPT !.data = (g.data \ mask) \cup (byte_value \cap mask)]

\* the data-window arm of write: mask = (offset >> 2) as u8
Pl061_write_data(g, offset, byte_value) ==
    LET mask           == ToBitset(offset \div 4, 0, 8)
        effective_mask == mask \cap g.direction
    IN  [g EXCEPT !.data = (g.data \ effective_mask)
                              \cup (byte_value \cap effective_mask)]

\* <Pl061Gpio as MmioDevice>::write
Pl061_write(g, offset, size, value) ==
    IF Pl061_size_rejected(size)
    THEN [res |-> "InvalidSize", arg |-> size, dev |-> g]
    ELSE IF offset >= 0 /\ offset <= 1020
    THEN [res |-> "Ok", arg |-> 0,
          dev |-> Pl061_write_data(g, offset, Pl061_byte_value(value))]
    ELSE IF offset = GPIODIR
    THEN [res |-> "Ok", arg |-> 0,
          dev |-> [g EXCEPT !.direction = Pl061_byte_value(value)]]
    ELSE IF offset = GPIOIE
    THEN [res |-> "Ok", arg |-> 0,
          dev |-> [g EXCEPT !.interrupt_enable = Pl061_byte_value(value)]]
    ELSE IF offset = GPIOAFSEL
    THEN [res |-> "Ok", arg |-> 0,
          dev |-> [g EXCEPT !.afsel = Pl061_byte_value(value)]]
    ELSE [res |-> "Ok", arg |-> 0, dev |-> g]

\* <Pl061Gpio as MmioDevice>::reset
Pl061_reset(g) ==
    [g EXCEPT !.data = {}, !.direction = {}, !.interrupt_enable = {},
              !.afsel = {}]

\* values written: 0xFF, 0x105 (a bit above the low byte), 0
GpioValues == {0..7, {0, 2, 8}, {}}
\* data-window offsets, with masks 0x00, 0x02, 0x55, 0xFE (0x3FB) and 0xFF
GpioDataOffsets == {0, 8, 340, 1019, 1020}
\* the (offset, size, value) triples handed to write
GpioWrites ==
    {<<o, 4, v>> : o \in GpioDataOffsets \cup {GPIODIR}, v \in GpioValues}
        \cup {<<o, 4, {0, 2, 8}>> : o \in {GPIOIE, GPIOAFSEL}}
        \cup {<<o, 4, 0..7>> : o \in {GPIOIC, 1280}}
        \cup {<<o, sz, {0, 2, 8}>> : o \in {GPIODIR, GPIOIE, GPIOAFSEL, 1020},
                                     sz \in {1, 2, 8}}
        \cup {<<GPIODIR, sz, 0..7>> : sz \in {0, 3, 16}}

\* the (offset, size) pairs handed to read
GpioReads ==
    {<<o, 4>> : o \in {0, 1020, GPIODIR, GPIOIE, GPIOAFSEL, GPIOIS, 1280,
                       4064, 4068, 4072, 4076, 4080, 4084, 4088, 4092}}
        \cup {<<o, sz>> : o \in {GPIODIR, GPIOIE, GPIOAFSEL},
                          sz \in {1, 2, 8}}
        \cup {<<GPIODIR, 3>>}

GpioWrite ==
    /\ \E w \in GpioWrites :
          LET done == Pl061_write(gpio, w[1], w[2], w[3])
          IN  /\ gpio' = done.dev
              /\ gpioResult' = [op |-> "write", offset |-> w[1],
                                size |-> w[2], value |-> w[3],
                                res |-> done.res, arg |-> done.arg,
                                val |-> {}, pre |-> gpio]
    /\ UNCHANGED <<memVars, mmioVars, uartVars, decVars, runVars>>

GpioRead ==
    /\ \E r \in GpioReads :
          LET done == Pl061_read(gpio, r[1], r[2])
          IN  /\ gpio' = gpio
              /\ gpioResult' = [op |-> "read", offset |-> r[1],
                                size |-> r[2], value |-> {},
                                res |-> done.res, arg |-> done.arg,
                                val |-> done.val, pre |-> gpio]
    /\ UNCHANGED <<memVars, mmioVars, uartVars, decVars, runVars>>

GpioReset ==
    /\ gpio' = Pl061_reset(gpio)
    /\ gpioResult' = [op |-> "reset", offset |-> 0, size |-> 0, value |-> {},
                      res |-> "Ok", arg |-> 0, val |-> {}, pre |-> gpio]
    /\ UNCHANGED <<memVars, mmioVars, uartVars, decVars, runVars>>

(***************************************************************************)
(* Syndrome decoders                                                       *)
(***************************************************************************)
EsrEl2_ec_low_bits(syndrome) == BitsetField(syndrome, 5, 0)

\* EsrEl2::ec and EsrEl2::iss
EsrEl2_ec(syndrome) == BitsetField(syndrome, 31, 26)

EsrEl2_iss(syndrome) == BitsetField(syndrome, 24, 0)

\* enum ExceptionClass: the discriminants that have a name
ExceptionClassNames ==
    (0 :> "Unknown" @@ 1 :> "TrappedWfInstruction"
     @@ 3 :> "TrappedMcrMrcCp15" @@ 4 :> "TrappedMcrrMrrcCp15"
     @@ 5 :> "TrappedMcrMrcCp14" @@ 6 :> "TrappedLdcStc"
     @@ 7 :> "TrappedSimdFp" @@ 8 :> "TrappedVmrs"
     @@ 9 :> "TrappedPointerAuth" @@ 10 :> "TrappedOtherInstruction"
     @@ 12 :> "TrappedMrrcCp14" @@ 13 :> "BranchTargetException"
     @@ 14 :> "IllegalExecutionState" @@ 17 :> "SvcAArch32"
     @@ 18 :> "HvcAArch32" @@ 19 :> "SmcAArch32"
     @@ 20 :> "TrappedSysregAArch64_128bit" @@ 21 :> "SvcAArch64"
     @@ 22 :> "HvcAArch64" @@ 23 :> "SmcAArch64"
     @@ 24 :> "TrappedSysregAArch64" @@ 25 :> "TrappedSve"
     @@ 26 :> "TrappedEret" @@ 27 :> "TrappedTstart" @@ 28 :> "PacFail"
     @@ 29 :> "TrappedSme" @@ 32 :> "InstructionAbortLowerEl"
     @@ 33 :> "InstructionAbortSameEl" @@ 34 :> "PcAlignmentFault"
     @@ 36 :> "DataAbortLowerEl" @@ 37 :> "DataAbortSameEl"
     @@ 38 :> "SpAlignmentFault" @@ 39 :> "MemoryOperation"
     @@ 40 :> "TrappedFpAArch32" @@ 44 :> "TrappedFpAArch64"
     @@ 45 :> "GcsException" @@ 47 :> "SError"
     @@ 48 :> "BreakpointLowerEl" @@ 49 :> "BreakpointSameEl"
     @@ 50 :> "SoftwareStepLowerEl" @@ 51 :> "SoftwareStepSameEl"
     @@ 52 :> "WatchpointLowerEl" @@ 53 :> "WatchpointSameEl"
     @@ 56 :> "BkptAArch32" @@ 58 :> "VectorCatchAArch32"
     @@ 60 :> "BrkAArch64" @@ 61 :> "ProfilingException")

\* impl From<u8> for ExceptionClass
ExceptionClassFrom(value) ==
    IF value \in DOMAIN ExceptionClassNames
    THEN [name |-> ExceptionClassNames[value], raw |-> value]
    ELSE [name |-> "Unrecognized", raw |-> value]

\* EsrEl2::exception_class
EsrEl2_exception_class(syndrome) == ExceptionClassFrom(EsrEl2_ec(syndrome))

DataAbortISS_sas_one_up(iss) == Field(iss, 24, 23)

\* iss::data_abort::DataAbortISS, the decoder the run loop uses
DataAbortISS_sas(iss) == Field(iss, 23, 22)

DataAbortISS_srt(iss) == Field(iss, 20, 16)

DataAbortISS_wnr(iss) == Field(iss, 6, 6) = 1

DataAbortISS_is_write(iss) == DataAbortISS_wnr(iss)

\* impl From<u8> for SyndromeAccessSize
SyndromeAccessSizeFrom(value) ==
    CASE value = 0 -> "Byte"
      [] value = 1 -> "Halfword"
      [] value = 2 -> "Word"
      [] value = 3 -> "DoubleWord"
      [] OTHER -> "panic"

DataAbortISS_access_size(iss) == SyndromeAccessSizeFrom(DataAbortISS_sas(iss))

\* the conversion of a SyndromeAccessSize into the byte count handed to the
\* MmioManager (0 = 1 byte, 1 = 2, 2 = 4, 3 = 8)
AccessSizeBytes(access_size) ==
    CASE access_size = "Byte" -> 1
      [] access_size = "Halfword" -> 2
      [] access_size = "Word" -> 4
      [] access_size = "DoubleWord" -> 8

VRegisterPanic31(n) ==
    IF n \in 0..30 THEN [kind |-> "Register", index |-> n]
    ELSE [kind |-> "panic", index |-> n]

\* the match of access_register: X0..X30, the zero register for 31
VRegisterOf(n) ==
    IF n \in 0..30 THEN [kind |-> "Register", index |-> n]
    ELSE IF n = 31 THEN [kind |-> "ZeroRegister", index |-> n]
    ELSE [kind |-> "panic", index |-> n]

DataAbortISS_access_register(iss) == VRegisterOf(DataAbortISS_srt(iss))

\* iss::sys_reg::SysRegAbortISS
SysRegAbortISS_op0(iss) == Field(iss, 21, 20)

SysRegAbortISS_op2(iss) == Field(iss, 19, 17)

SysRegAbortISS_op1(iss) == Field(iss, 16, 14)

SysRegAbortISS_crn(iss) == Field(iss, 13, 10)

SysRegAbortISS_rt(iss) == Field(iss, 9, 5)

SysRegAbortISS_crm(iss) == Field(iss, 4, 1)

SysRegAbortISS_direction(iss) == Field(iss, 0, 0) = 1

SysRegAbortISS_is_write(iss) == ~SysRegAbortISS_direction(iss)

SysRegAbortISS_access_register(iss) == VRegisterOf(SysRegAbortISS_rt(iss))

SysRegTuple(iss) ==
    <<SysRegAbortISS_op0(iss), SysRegAbortISS_op1(iss), SysRegAbortISS_crn(iss),
      SysRegAbortISS_crm(iss), SysRegAbortISS_op2(iss)>>

\* SysRegAbortISS::system_register: the match panics on every other tuple
SysRegAbortISS_system_register(iss) ==
    IF SysRegTuple(iss) = <<3, 7, 7, 12, 1>>
    THEN [res |-> "Ok", register |-> "CntpCtEl0"]
    ELSE IF SysRegTuple(iss) = <<3, 3, 14, 0, 1>>
    THEN [res |-> "Ok", register |-> "CntpCtEl0"]
    ELSE [res |-> "panic", register |-> "none"]

get_register_value_always_zero(regs, vreg) == 0

\* regs::utils::get_register_value
get_register_value(regs, vreg) ==
    IF vreg.kind = "Register" THEN regs[vreg.index] ELSE 0

\* regs::utils::set_register_value
set_register_value(regs, vreg, value) ==
    IF vreg.kind = "Register" THEN [regs EXCEPT ![vreg.index] = value]
    ELSE regs

\* the bits of a syndrome outside EC that are explored: none; IL, ISS and
\* ISS2 bits next to EC; the reserved top bits
EsrOtherBits == {{}, {0, 24, 25, 32}, {55, 56, 63}}

\* nothing decoded yet
NoDecode == [decoder |-> "none"]

\* the ISS word of a trapped system-register access
SysRegWord(op0, op1, crn, crm, op2, rt, dir, high) ==
    high * 2^22 + op0 * 2^20 + op2 * 2^17 + op1 * 2^14 + crn * 2^10
        + rt * 2^5 + crm * 2 + dir

\* the ISS word of a data abort with a valid syndrome
DataAbortWord(sas, srt, wnr) == 2^24 + sas * 2^22 + srt * 2^16 + wnr * 2^6

DecodeEsr ==
    /\ \E ec \in 0..63, other \in EsrOtherBits :
          LET syndrome == ToBitset(ec, 26, 6) \cup other
          IN  /\ word' = EsrEl2_iss(syndrome)
              /\ decoded' =
                   [decoder |-> "EsrEl2", syndrome |-> syndrome,
                    exception_class |-> EsrEl2_exception_class(syndrome)]
    /\ UNCHANGED <<spsr, spsrResult, memVars, mmioVars, uartVars, gpioVars,
                   runVars>>

\* transfer register fields that are explored
TransferRegs == {0, 30, 31}

DecodeSysReg ==
    /\ \E op0 \in {2, 3}, op1 \in {3, 7}, crn \in {7, 14},
          crm \in {0, 12}, op2 \in {1, 2}, rt \in TransferRegs,
          dir \in {0, 1}, high \in {0, 1} :
          LET iss == SysRegWord(op0, op1, crn, crm, op2, rt, dir, high)
          IN  /\ word' = iss
              /\ decoded' =
                   [decoder |-> "SysRegAbortISS",
                    system_register |-> SysRegAbortISS_system_register(iss),
                    access_register |-> SysRegAbortISS_access_register(iss),
                    is_write |-> SysRegAbortISS_is_write(iss)]
    /\ UNCHANGED <<spsr, spsrResult, memVars, mmioVars, uartVars, gpioVars,
                   runVars>>

\* the bits of a data-abort ISS word outside SAS, SRT and WnR and below bit
\* 31: none; ISV alone; ISV, SSE, SF and bits 30, 25, 7, 5, 0
DataAbortOtherBits ==
    {0, 2^24, 2^30 + 2^25 + 2^24 + 2^21 + 2^15 + 2^7 + 2^5 + 1}

DecodeDataAbort ==
    /\ \E sas \in 0..3, srt \in 0..31, wnr \in {0, 1},
          other \in DataAbortOtherBits :
          LET iss == DataAbortWord(sas, srt, wnr) - 2^24 + other
          IN  /\ word' = iss
              /\ decoded' =
                   [decoder |-> "DataAbortISS",
                    access_size |-> DataAbortISS_access_size(iss),
                    access_register |-> DataAbortISS_access_register(iss),
                    is_write |-> DataAbortISS_is_write(iss)]
    /\ UNCHANGED <<spsr, spsrResult, memVars, mmioVars, uartVars, gpioVars,
                   runVars>>

\* esr_el2::DataAbortISS, the decoder regs/mod.rs re-exports
EsrEl2_DataAbortISS_sas(iss) == Field(iss, 23, 22)

EsrEl2_DataAbortISS_srt(iss) == Field(iss, 20, 16)

EsrEl2_DataAbortISS_wnr(iss) == Field(iss, 6, 6) = 1

EsrEl2_DataAbortISS_access_size(iss) ==
    SyndromeAccessSizeFrom(EsrEl2_DataAbortISS_sas(iss))

EsrEl2_DataAbortISS_is_write(iss) == ~EsrEl2_DataAbortISS_wnr(iss)

\* the match of access_register: X0..X30, a panic for 31
EsrEl2_DataAbortISS_access_register(iss) ==
    LET n == EsrEl2_DataAbortISS_srt(iss)
    IN  IF n \in 0..30 THEN [kind |-> "Register", index |-> n]
        ELSE [kind |-> "panic", index |-> n]

DecodeDataAbortEsrEl2 ==
    /\ \E sas \in 0..3, srt \in 0..31, wnr \in {0, 1},
          other \in DataAbortOtherBits :
          LET iss == DataAbortWord(sas, srt, wnr) - 2^24 + other
          IN  /\ word' = iss
              /\ decoded' =
                   [decoder |-> "esr_el2::DataAbortISS",
                    access_size |-> EsrEl2_DataAbortISS_access_size(iss),
                    access_register |->
                        EsrEl2_DataAbortISS_access_register(iss),
                    is_write |-> EsrEl2_DataAbortISS_is_write(iss)]
    /\ UNCHANGED <<spsr, spsrResult, memVars, mmioVars, uartVars, gpioVars,
                   runVars>>

(***************************************************************************)
(* SPSR_EL3 (regs/spsr_el3.rs)                                             *)
(***************************************************************************)
\* a bitfield! setter of one bit
SetBit(S, b, v) == IF v THEN S \cup {b} ELSE S \ {b}

\* SpsrEl3::new
SpsrEl3_new == {}

\* the getter and the setter of M[3:0]
SpsrEl3_m3_0(S) == BitsetField(S, 3, 0)

SpsrEl3_set_m3_0(S, value) == (S \ (0..3)) \cup ToBitset(value % 16, 0, 4)

\* SpsrEl3::set_exception_level: (current_m & 0b0011) | ((el & 0b11) << 2)
SpsrEl3_set_exception_level(S, el) ==
    SpsrEl3_set_m3_0(S, BitAnd(SpsrEl3_m3_0(S), 3) + (el % 4) * 4)

\* SpsrEl3::exception_level
SpsrEl3_exception_level(S) == (SpsrEl3_m3_0(S) \div 4) % 4

\* SpsrEl3::set_stack_pointer: (current_m & 0b1110) | (use_el0_sp as u64)
SpsrEl3_set_stack_pointer(S, use_el0_sp) ==
    SpsrEl3_set_m3_0(S, BitAnd(SpsrEl3_m3_0(S), 14)
                           + (IF use_el0_sp THEN 1 ELSE 0))

\* SpsrEl3::stack_pointer_is_el0
SpsrEl3_stack_pointer_is_el0(S) == BitAnd(SpsrEl3_m3_0(S), 1) = 0

\* SpsrEl3::set_condition_flags
SpsrEl3_set_condition_flags(S, n, z, c, v) ==
    SetBit(SetBit(SetBit(SetBit(S, 31, n), 30, z), 29, c), 28, v)

\* SpsrEl3::set_interrupt_masks
SpsrEl3_set_interrupt_masks(S, d, a, i, f) ==
    SetBit(SetBit(SetBit(SetBit(S, 9, d), 8, a), 7, i), 6, f)

\* raw values handed to from_raw: M[3:0] below nothing, below M[4] and
\* DAIF, and below NZCV and bit 63
SpsrRawValues ==
    {ToBitset(m, 0, 4) \cup hi : m \in 0..15,
                                hi \in {{}, {4, 6, 7, 8, 9}, {28, 31, 63}}}

SpsrFromRaw ==
    /\ \E raw \in SpsrRawValues :
          /\ spsr' = raw
          /\ spsrResult' = [op |-> "from_raw", arg |-> 0, pre |-> spsr]
    /\ UNCHANGED <<word, decoded, memVars, mmioVars, uartVars, gpioVars,
                   runVars>>

SpsrSetExceptionLevel ==
    /\ \E el \in 0..5 :
          /\ spsr' = SpsrEl3_set_exception_level(spsr, el)
          /\ spsrResult' = [op |-> "set_exception_level", arg |-> el,
                            pre |-> spsr]
    /\ UNCHANGED <<word, decoded, memVars, mmioVars, uartVars, gpioVars,
                   runVars>>

SpsrSetStackPointer ==
    /\ \E use_el0_sp \in BOOLEAN :
          /\ spsr' = SpsrEl3_set_stack_pointer(spsr, use_el0_sp)
          /\ spsrResult' = [op |-> "set_stack_pointer", arg |-> use_el0_sp,
                            pre |-> spsr]
    /\ UNCHANGED <<word, decoded, memVars, mmioVars, uartVars, gpioVars,
                   runVars>>

\* run(): the SPSR built before the loop and installed as CPSR
InitialCpsr ==
    SpsrEl3_set_stack_pointer(
        SpsrEl3_set_exception_level(
            SpsrEl3_set_interrupt_masks(
                SpsrEl3_set_condition_flags(SpsrEl3_new,
                                            FALSE, FALSE, FALSE, FALSE),
                TRUE, TRUE, TRUE, TRUE),
            1),
        FALSE)

(***************************************************************************)
(* vCPU run loop (main.rs)                                                 *)
(***************************************************************************)
FIRMWARE_BASE == 0
UART_BASE == 150994944
GPIO_BASE == 1073733632
\* Pl011Device::get_size and Pl061Gpio::get_size
PL011_SIZE == 4096
PL061_SIZE == 4096

\* guest PCs at which an exit is taken: 0, 4, ..., 4 * MaxPcIndex
MaxPcIndex == 1
GuestPCs == {4 * i : i \in 0..MaxPcIndex}
\* registers the guest program uses, and the values it puts in them
GuestRegs == {0, 30}
GuestValues == {65537}
\* values the devices return, values of the host counter
DeviceValues == {3}
CounterValues == {4}
\* fault addresses: UART DR, a halfword inside the UART, the first address
\* past the UART region
FaultAddrs == {UART_BASE, UART_BASE + 2, UART_BASE + PL011_SIZE}
\* access sizes of the explored data aborts: halfword and word
FaultSas == {1, 2}

Syndrome(ec, iss) == ToBitset(ec, 26, 6) \cup ToBitset(iss, 0, 25)

DataAbortExits ==
    {[reason |-> "Exception", syndrome |-> Syndrome(ec, DataAbortWord(sas, srt, wnr)),
      physical_address |-> a] :
        ec \in {36, 37}, sas \in FaultSas, srt \in TransferRegs, wnr \in {0, 1},
        a \in FaultAddrs}

SysRegExits ==
    {[reason |-> "Exception",
      syndrome |-> Syndrome(24, SysRegWord(3, t[1], t[2], t[3], t[4], rt, dir, 0)),
      physical_address |-> 0] :
        t \in {<<3, 14, 0, 1>>, <<7, 7, 12, 1>>, <<3, 14, 0, 2>>},
        rt \in TransferRegs, dir \in {0, 1}}

OtherExceptionExits ==
    {[reason |-> "Exception", syndrome |-> Syndrome(ec, 0),
      physical_address |-> 0] : ec \in {22, 0, 23, 63}}

\* a VirtualCpuExitReason that is not Exception
OtherExits == {[reason |-> "Other", syndrome |-> {}, physical_address |-> 0]}

Exits == DataAbortExits \cup SysRegExits \cup OtherExceptionExits \cup OtherExits

NoExit == [reason |-> "none", syndrome |-> {}, physical_address |-> 0,
           pc |-> 0, gpr |-> [r \in 0..30 |-> 0]]

NotEnded == [returned |-> "none", exit_code |-> 0, stderr |-> FALSE]

\* main: run() returned; an Err is printed, the process ends normally
MainOutcome(result) ==
    [returned |-> result, exit_code |-> 0, stderr |-> (result = "Err")]

\* a panic unwinds out of main
PanicOutcome == [returned |-> "panic", exit_code |-> 101, stderr |-> TRUE]

\* the class of the exit being serviced
ExitClass ==
    IF exit.reason = "Exception"
    THEN EsrEl2_exception_class(exit.syndrome).name
    ELSE "none"

ArmBreaksNotHvc(class) ==
    ~(class \in {"DataAbortLowerEl", "DataAbortSameEl", "HvcAArch64",
                 "TrappedSysregAArch64"})

\* the arms of the match that end in break
ArmBreaks(class) ==
    ~(class \in {"DataAbortLowerEl", "DataAbortSameEl", "TrappedSysregAArch64"})

AdvancePcTwice(p) == p + 8

\* PC += 4 at the end of the loop body
AdvancePc(p) == p + 4

\* the end of the loop body: break leaves the loop and run() returns Ok(()),
\* otherwise the PC is advanced and the loop goes round
LoopTail(breaks) ==
    IF breaks
    THEN /\ loc' = "exited"
         /\ pc' = pc
         /\ outcome' = MainOutcome("Ok")
    ELSE /\ loc' = "run"
         /\ pc' = AdvancePc(pc)
         /\ outcome' = outcome

ReadWriteBackAlways(regs, vreg, call) == set_register_value(regs, vreg, call.val)

\* the match on the result of handle_read
ReadWriteBack(regs, vreg, call) ==
    IF call.res = "Ok" THEN set_register_value(regs, vreg, call.val)
    ELSE regs

\* what a registered device answers to the manager
DeviceReadAnswers ==
    {[res |-> "Ok", val |-> v, reg |-> 0] : v \in DeviceValues}
        \cup {[res |-> "DeviceError", val |-> 0, reg |-> 0]}

DeviceWriteAnswers ==
    {[res |-> "Ok", val |-> 0, reg |-> 0],
     [res |-> "DeviceError", val |-> 0, reg |-> 0]}

\* vcpu.run() returns an exit: the guest has run and changed its registers
VcpuRun ==
    /\ loc = "run"
    /\ \E npc \in GuestPCs, r \in GuestRegs, e \in Exits :
          \E v \in GuestValues \cup {gpr[r]} :
             /\ pc' = npc
             /\ gpr' = [gpr EXCEPT ![r] = v]
             /\ exit' = [reason |-> e.reason, syndrome |-> e.syndrome,
                         physical_address |-> e.physical_address,
                         pc |-> npc, gpr |-> [gpr EXCEPT ![r] = v]]
    /\ loc' = "handle"
    /\ busLog' = <<>>
    /\ UNCHANGED <<outcome, memVars, mmioVars, decVars, uartVars, gpioVars>>

\* vcpu.run() fails: the error propagates out of run()
BackendError ==
    /\ loc = "run"
    /\ loc' = "exited"
    /\ exit' = [NoExit EXCEPT !.reason = "BackendError"]
    /\ busLog' = <<>>
    /\ outcome' = MainOutcome("Err")
    /\ UNCHANGED <<pc, gpr, memVars, mmioVars, decVars, uartVars, gpioVars>>

\* the DataAbortLowerEl | DataAbortSameEl arm
HandleDataAbort ==
    /\ loc = "handle"
    /\ ExitClass \in {"DataAbortLowerEl", "DataAbortSameEl"}
    /\ LET iss  == EsrEl2_iss(exit.syndrome)
           vreg == DataAbortISS_access_register(iss)
           size == AccessSizeBytes(DataAbortISS_access_size(iss))
       IN  IF vreg.kind = "panic"
           THEN /\ loc' = "panicked"
                /\ outcome' = PanicOutcome
                /\ UNCHANGED <<pc, gpr, busLog>>
           ELSE /\ IF DataAbortISS_is_write(iss)
                   THEN \E out \in DeviceWriteAnswers :
                          /\ busLog' = <<BusCall("handle_write", regions,
                                           exit.physical_address, size,
                                           get_register_value(gpr, vreg),
                                           [d \in DOMAIN devReg |-> out])>>
                          /\ gpr' = gpr
                   ELSE \E out \in DeviceReadAnswers :
                          LET call == BusCall("handle_read", regions,
                                              exit.physical_address, size, 0,
                                              [d \in DOMAIN devReg |-> out])
                          IN  /\ busLog' = <<call>>
                              /\ gpr' = ReadWriteBack(gpr, vreg, call)
                /\ LoopTail(ArmBreaks(ExitClass))
    /\ UNCHANGED <<exit, memVars, mmioVars, decVars, uartVars, gpioVars>>

\* the HvcAArch64 arm
HandleHvc ==
    /\ loc = "handle"
    /\ ExitClass = "HvcAArch64"
    /\ LoopTail(ArmBreaks(ExitClass))
    /\ UNCHANGED <<gpr, exit, busLog, memVars, mmioVars, decVars, uartVars,
                   gpioVars>>

\* the TrappedSysregAArch64 arm
HandleSysReg ==
    /\ loc = "handle"
    /\ ExitClass = "TrappedSysregAArch64"
    /\ LET iss             == EsrEl2_iss(exit.syndrome)
           system_register == SysRegAbortISS_system_register(iss)
           gp_register     == SysRegAbortISS_access_register(iss)
       IN  IF system_register.res = "panic" \/ gp_register.kind = "panic"
           THEN /\ loc' = "panicked"
                /\ outcome' = PanicOutcome
                /\ UNCHANGED <<pc, gpr>>
           ELSE /\ \E value \in CounterValues :
                      gpr' = set_register_value(gpr, gp_register, value)
                /\ LoopTail(ArmBreaks(ExitClass))
    /\ UNCHANGED <<exit, busLog, memVars, mmioVars, decVars, uartVars,
                   gpioVars>>

\* the arm for every other exception class
HandleOtherException ==
    /\ loc = "handle"
    /\ exit.reason = "Exception"
    /\ ~(ExitClass \in {"DataAbortLowerEl", "DataAbortSameEl", "HvcAArch64",
                        "TrappedSysregAArch64"})
    /\ LoopTail(ArmBreaks(ExitClass))
    /\ UNCHANGED <<gpr, exit, busLog, memVars, mmioVars, decVars, uartVars,
                   gpioVars>>

\* the arm for an exit reason that is not Exception
HandleOtherExit ==
    /\ loc = "handle"
    /\ exit.reason # "Exception"
    /\ LoopTail(TRUE)
    /\ UNCHANGED <<gpr, exit, busLog, memVars, mmioVars, decVars, uartVars,
                   gpioVars>>

(***************************************************************************)
(* Specifications                                                          *)
(***************************************************************************)
\* SharedMemory::default and MmioManager::default: nothing recorded
InitEmpty ==
    /\ segments = <<>>
    /\ bytes = <<>>
    /\ memResult = NoCall
    /\ regions = <<>>
    /\ nextDev = 1
    /\ devReg = <<>>
    /\ mmioResult = NoCall
    /\ uart = Pl011Device_new
    /\ uartResult = NoCall
    /\ gpio = Pl061Gpio_new
    /\ gpioResult = NoCall
    /\ word = 0
    /\ decoded = NoDecode
    /\ spsr = SpsrEl3_new
    /\ spsrResult = NoCall
    /\ loc = "idle"
    /\ pc = 0
    /\ gpr = [r \in 0..30 |-> 0]
    /\ exit = NoExit
    /\ busLog = <<>>
    /\ outcome = NotEnded

NextMem == AddSegment

SpecMem == InitEmpty /\ [][NextMem]_vars

NextMmio ==
    \/ nextDev <= MaxDevices /\ RegisterDevice
    \/ HandleRead
    \/ HandleWrite

SpecMmio == InitEmpty /\ [][NextMmio]_vars

\* the MmioManager while devices are being registered
NextRegister == nextDev <= MaxRegistrations /\ RegisterDevice

SpecRegister == InitEmpty /\ [][NextRegister]_vars

\* SharedMemory after its segments have been added, all memory zero
InitMemAccess ==
    /\ segments \in {SegmentsAfter(calls) : calls \in SetupCalls}
    /\ bytes = [i \in 1..Len(segments) |-> SegmentNew(segments[i].size)]
    /\ memResult = NoCall
    /\ regions = <<>>
    /\ nextDev = 1
    /\ devReg = <<>>
    /\ mmioResult = NoCall
    /\ uart = Pl011Device_new
    /\ uartResult = NoCall
    /\ gpio = Pl061Gpio_new
    /\ gpioResult = NoCall
    /\ word = 0
    /\ decoded = NoDecode
    /\ spsr = SpsrEl3_new
    /\ spsrResult = NoCall
    /\ loc = "idle"
    /\ pc = 0
    /\ gpr = [r \in 0..30 |-> 0]
    /\ exit = NoExit
    /\ busLog = <<>>
    /\ outcome = NotEnded

NextMemAccess == ReadBytes \/ WriteBytes \/ Read \/ Write

SpecMemAccess == InitMemAccess /\ [][NextMemAccess]_vars

\* the aligned accessors over the same segment layouts
NextMemAligned == ReadAligned \/ WriteAligned

SpecMemAligned == InitMemAccess /\ [][NextMemAligned]_vars

UartInputData == UartInputDataOf(InputBytes)

UartRxInputData == UartInputDataOf(RxInputBytes)

\* the PL011 on its own, driven through MmioDevice and input_data
NextUart ==
    \/ UartWrite
    \/ UartRead
    \/ UartReset
    \/ UartInputData

SpecUart == InitEmpty /\ [][NextUart]_vars

\* the PL011 with the inputs that exercise its receive side, its registers
\* and its error returns
NextUartRx ==
    \/ UartRxWrite
    \/ UartRxRead
    \/ UartReset
    \/ UartRxInputData

SpecUartRx == InitEmpty /\ [][NextUartRx]_vars

\* the PL061 on its own, driven through MmioDevice
NextGpio ==
    \/ GpioWrite
    \/ GpioRead
    \/ GpioReset

SpecGpio == InitEmpty /\ [][NextGpio]_vars

\* the SpsrEl3 accessors on their own
NextSpsr == SpsrFromRaw \/ SpsrSetExceptionLevel \/ SpsrSetStackPointer

SpecSpsr == InitEmpty /\ [][NextSpsr]_vars

NextDec ==
    DecodeSysReg \/ DecodeDataAbort \/ DecodeDataAbortEsrEl2 \/ DecodeEsr

SpecDec == InitEmpty /\ [][NextDec]_vars

\* run() up to the loop: UART and GPIO registered, PC at the firmware base
Init ==
    /\ segments = <<>>
    /\ bytes = <<>>
    /\ memResult = NoCall
    /\ regions = RegisterDeviceRegions(
                    RegisterDeviceRegions(<<>>, UART_BASE, PL011_SIZE, 1),
                    GPIO_BASE, PL061_SIZE, 2)
    /\ nextDev = 3
    /\ devReg = [d \in {1, 2} |-> 0]
    /\ mmioResult = NoCall
    /\ uart = Pl011Device_new
    /\ uartResult = NoCall
    /\ gpio = Pl061Gpio_new
    /\ gpioResult = NoCall
    /\ word = 0
    /\ decoded = NoDecode
    /\ spsr = InitialCpsr
    /\ spsrResult = NoCall
    /\ loc = "run"
    /\ pc = FIRMWARE_BASE
    /\ gpr = [r \in 0..30 |-> 0]
    /\ exit = NoExit
    /\ busLog = <<>>
    /\ outcome = NotEnded

Next ==
    \/ VcpuRun
    \/ BackendError
    \/ HandleDataAbort
    \/ HandleHvc
    \/ HandleSysReg
    \/ HandleOtherException
    \/ HandleOtherExit

Spec == Init /\ [][Next]_vars

(***************************************************************************)
(* Claims: SharedMemory                                                    *)
(***************************************************************************)
\* the guest-physical addresses of a segment
SegAddrs(s) == {a \in 0..USIZE_MAX : s.base <= a /\ a < s.base + s.size}

RangeAddrs(base, size) == {a \in 0..USIZE_MAX : base <= a /\ a < base + size}

\* C1: the segments recorded by successful add_segment calls are pairwise
\* non-overlapping (no address lies in two of them), and every call whose
\* range [base, base+size) intersects an already recorded segment fails
\* with RegionOverlap.
C1_SegmentsDisjoint ==
    /\ \A i, j \in 1..Len(segments) :
          i # j => SegAddrs(segments[i]) \cap SegAddrs(segments[j]) = {}
    /\ (memResult.op = "add_segment"
        /\ \E i \in 1..Len(memResult.pre) :
              RangeAddrs(memResult.base, memResult.size)
                 \cap SegAddrs(memResult.pre[i]) # {})
       => memResult.res = "RegionOverlap"

\* a call enclosing a recorded segment was rejected, next to two recorded
\* segments
C1_Witness ==
    /\ Len(segments) >= 2
    /\ memResult.op = "add_segment"
    /\ memResult.res = "RegionOverlap"
    /\ \E i \in 1..Len(memResult.pre) :
          /\ memResult.base < memResult.pre[i].base
          /\ memResult.base + memResult.size
                > memResult.pre[i].base + memResult.pre[i].size

(***************************************************************************)
(* Claims: MmioManager                                                     *)
(***************************************************************************)
IsBusCall == mmioResult.op \in {"handle_read", "handle_write"}

\* the registered regions that contain the whole range [addr, addr+size)
Containing(addr, size) ==
    {b \in DOMAIN regions :
        /\ regions[b].base_addr <= addr
        /\ addr + size <= regions[b].base_addr + regions[b].size}

WellFormed(addr, size) == size \in {1, 2, 4, 8} /\ addr % size = 0

\* C2: an access with size in {1,2,4,8} and size-aligned addr is dispatched
\* to exactly the device whose region contains [addr, addr+size), with
\* offset = addr - base; if no region contains the whole range the call
\* fails with UnmappedAccess(addr) and no device is invoked.
C2_Routing ==
    (IsBusCall /\ WellFormed(mmioResult.addr, mmioResult.size)) =>
        LET c == Containing(mmioResult.addr, mmioResult.size)
        IN  IF c # {}
            THEN /\ mmioResult.res # "UnmappedAccess"
                 /\ mmioResult.invoked =
                       {[device |-> regions[b].device,
                         offset |-> mmioResult.addr - b,
                         size   |-> mmioResult.size,
                         value  |-> mmioResult.value] : b \in c}
                 /\ Cardinality(mmioResult.invoked) = 1
            ELSE /\ mmioResult.res = "UnmappedAccess"
                 /\ mmioResult.err.addr = mmioResult.addr
                 /\ mmioResult.invoked = {}

\* with two regions registered, an access was routed to the upper one at a
\* non-zero offset
C2_Witness ==
    /\ IsBusCall
    /\ Cardinality(DOMAIN regions) = 2
    /\ \E i \in mmioResult.invoked :
          /\ i.offset > 0
          /\ \E b \in DOMAIN regions :
                b < mmioResult.addr - i.offset /\ regions[b].size > 0

\* C3: a size outside {1,2,4,8} is rejected with InvalidSize and a
\* misaligned addr with InvalidAlignment, mapped or not; the size check
\* comes before the alignment check, which comes before the mapping check,
\* and no device is invoked on rejection.
C3_SizeAlignmentGate ==
    IsBusCall =>
        /\ ~(mmioResult.size \in {1, 2, 4, 8}) =>
              (mmioResult.res = "InvalidSize" /\ mmioResult.invoked = {})
        /\ (mmioResult.size \in {1, 2, 4, 8}
                /\ mmioResult.addr % mmioResult.size # 0) =>
              (mmioResult.res = "InvalidAlignment" /\ mmioResult.invoked = {})

\* a misaligned access to an unmapped address was rejected for its alignment
C3_Witness ==
    /\ IsBusCall
    /\ mmioResult.res = "InvalidAlignment"
    /\ DOMAIN regions # {}
    /\ \A b \in DOMAIN regions :
          ~(b <= mmioResult.addr /\ mmioResult.addr < b + regions[b].size)

(***************************************************************************)
(* Claims: system-register decoder                                         *)
(***************************************************************************)
CounterTuples == {<<3, 3, 14, 0, 1>>, <<3, 7, 7, 12, 1>>}

\* C10: system_register() returns the counter register exactly for the
\* tuples (3,3,14,0,1) and (3,7,7,12,1), whatever Rt and Direction are, and
\* for every other tuple it returns a SysRegNotFound error value instead of
\* panicking.
C10_SystemRegisterTotal ==
    decoded.decoder = "SysRegAbortISS" =>
        IF SysRegTuple(word) \in CounterTuples
        THEN decoded.system_register = [res |-> "Ok", register |-> "CntpCtEl0"]
        ELSE decoded.system_register.res = "SysRegNotFound"

(***************************************************************************)
(* Claims: vCPU run loop                                                   *)
(***************************************************************************)
\* the exit taken last has been serviced
Serviced == loc # "handle" /\ exit.reason \in {"Exception", "Other"}

ExitIsDataAbort ==
    exit.reason = "Exception"
        /\ ExitClass \in {"DataAbortLowerEl", "DataAbortSameEl"}

ExitIsSysReg == exit.reason = "Exception" /\ ExitClass = "TrappedSysregAArch64"

ExitIsHvc == exit.reason = "Exception" /\ ExitClass = "HvcAArch64"

ExitIss == EsrEl2_iss(exit.syndrome)

BusErrors == {"UnmappedAccess", "InvalidAlignment", "InvalidSize", "DeviceError"}

\* C4: once a Data-Abort exit whose bus operation succeeded, or a trapped
\* Sys-Reg exit that was emulated, has been serviced, the loop is back at
\* run() and the PC is the PC of the exit plus 4: advanced once, not zero
\* times and not twice.
C4_PcAdvancedOnce ==
    (Serviced /\ loc # "panicked"
        /\ \/ ExitIsDataAbort /\ Len(busLog) = 1 /\ busLog[1].res = "Ok"
           \/ ExitIsSysReg)
    => (loc = "run" /\ pc = exit.pc + 4)

\* a device access that succeeded at PC = 4 is followed by run() at PC = 8
C4_Witness ==
    /\ loc = "run"
    /\ ExitIsDataAbort
    /\ busLog # <<>>
    /\ busLog[1].res = "Ok"
    /\ exit.pc = 4
    /\ pc = 8

\* C5: when the bus operation of a Data-Abort exit fails, for a read as for
\* a write, the loop does not stop: no general-purpose register is written,
\* the PC is advanced by 4 and run() is entered again.
C5_BusErrorNonFatal ==
    (Serviced /\ ExitIsDataAbort /\ Len(busLog) = 1
        /\ busLog[1].res \in BusErrors)
    => (loc = "run" /\ gpr = exit.gpr /\ pc = exit.pc + 4 /\ ENABLED VcpuRun)

\* a read into a GPR holding a non-zero value hit the first address past the
\* UART region and was answered with UnmappedAccess
C5_Witness ==
    /\ loc = "run"
    /\ ExitIsDataAbort
    /\ busLog # <<>>
    /\ busLog[1].op = "handle_read"
    /\ busLog[1].res = "UnmappedAccess"
    /\ busLog[1].addr = UART_BASE + PL011_SIZE
    /\ DataAbortISS_access_register(ExitIss).kind = "Register"
    /\ exit.gpr[DataAbortISS_access_register(ExitIss).index] # 0

\* C6: a transfer-register field of 31 decodes to the zero register without
\* a panic; a guest write through it hands 0 to the bus, and a guest read
\* or a counter read through it changes no general-purpose register.
C6_ZeroRegister ==
    /\ (Serviced /\ ExitIsDataAbort /\ DataAbortISS_srt(ExitIss) = 31) =>
          /\ DataAbortISS_access_register(ExitIss).kind = "ZeroRegister"
          /\ loc # "panicked"
          /\ gpr = exit.gpr
          /\ busLog # <<>>
          /\ DataAbortISS_is_write(ExitIss) => busLog[1].value = 0
    /\ (Serviced /\ ExitIsSysReg /\ SysRegAbortISS_rt(ExitIss) = 31
            /\ SysRegTuple(ExitIss) \in CounterTuples) =>
          /\ SysRegAbortISS_access_register(ExitIss).kind = "ZeroRegister"
          /\ loc # "panicked"
          /\ gpr = exit.gpr

\* with non-zero GPRs, a write with SRT = 31 reached a device with value 0
C6_Witness ==
    /\ loc = "run"
    /\ ExitIsDataAbort
    /\ DataAbortISS_srt(ExitIss) = 31
    /\ DataAbortISS_is_write(ExitIss)
    /\ busLog # <<>>
    /\ busLog[1].invoked # {}
    /\ busLog[1].value = 0
    /\ \A r \in GuestRegs : gpr[r] # 0

\* C7: a Data-Abort exit is serviced by exactly one bus operation at the
\* fault address; a write is a handle_write of the value of the transfer
\* GPR and changes no general-purpose register; a read is a handle_read
\* and, when it succeeds, sets the transfer GPR to the value returned and
\* leaves all other general-purpose registers as they were.
C7_OneBusOperation ==
    (Serviced /\ ExitIsDataAbort) =>
        LET vreg == DataAbortISS_access_register(ExitIss)
        IN  /\ Len(busLog) = 1
            /\ busLog[1].addr = exit.physical_address
            /\ IF DataAbortISS_is_write(ExitIss)
               THEN /\ busLog[1].op = "handle_write"
                    /\ busLog[1].value =
                          (IF vreg.kind = "Register" THEN exit.gpr[vreg.index]
                           ELSE 0)
                    /\ gpr = exit.gpr
               ELSE /\ busLog[1].op = "handle_read"
                    /\ busLog[1].res = "Ok" =>
                          /\ vreg.kind = "Register" =>
                                gpr[vreg.index] = busLog[1].val
                          /\ \A r \in DOMAIN gpr :
                                (vreg.kind # "Register" \/ r # vreg.index)
                                   => gpr[r] = exit.gpr[r]

\* a read into X30 changed X30 while X0 kept its non-zero value
C7_Witness ==
    /\ loc = "run"
    /\ ExitIsDataAbort
    /\ busLog # <<>>
    /\ busLog[1].res = "Ok"
    /\ busLog[1].op = "handle_read"
    /\ DataAbortISS_srt(ExitIss) = 30
    /\ gpr[30] # exit.gpr[30]
    /\ gpr[0] # 0

ExitIsUnexpected ==
    \/ exit.reason = "Other"
    \/ exit.reason = "Exception"
         /\ ~(ExitClass \in {"DataAbortLowerEl", "DataAbortSameEl",
                             "HvcAArch64", "TrappedSysregAArch64"})

\* C8: an exit with any other exception class, or with a reason that is not
\* Exception, stops the loop and ends the run with a top-level error and a
\* non-zero exit code, unlike the exit code 0 of a clean HVC termination.
C8_UnexpectedExitIsError ==
    (Serviced /\ ExitIsUnexpected) =>
        /\ loc = "exited"
        /\ outcome.returned = "Err"
        /\ outcome.exit_code # 0

\* C9: an HVC exit ends the run cleanly with success: run() is not entered
\* again, no bus operation is made, and neither the PC nor any
\* general-purpose register is modified.
C9_HvcStopsCleanly ==
    (Serviced /\ ExitIsHvc) =>
        /\ loc = "exited"
        /\ outcome = [returned |-> "Ok", exit_code |-> 0, stderr |-> FALSE]
        /\ ~ENABLED VcpuRun
        /\ ~ENABLED BackendError
        /\ busLog = <<>>
        /\ pc = exit.pc
        /\ gpr = exit.gpr

\* an HVC taken at a non-zero PC with non-zero GPRs, after earlier exits
C9_Witness ==
    /\ loc = "exited"
    /\ ExitIsHvc
    /\ pc = 4
    /\ \A r \in GuestRegs : gpr[r] # 0

\* C11: a trapped access to the counter writes the transfer GPR only when
\* its direction is read; when the direction is write (Direction bit 0)
\* the access is dropped and no general-purpose register is modified.
C11_SysRegWriteDropped ==
    (Serviced /\ ExitIsSysReg /\ SysRegTuple(ExitIss) \in CounterTuples
        /\ SysRegAbortISS_is_write(ExitIss))
    => gpr = exit.gpr

\* C12: the CPSR installed before the first run() has M[3:0] = 0b0101 (EL1
\* with the dedicated stack pointer), M[4] = 0, the D, A, I and F masks set,
\* N, Z, C and V clear, and every other bit zero.
C12_InitialCpsr ==
    /\ SpsrEl3_m3_0(spsr) = 5
    /\ ~(4 \in spsr)
    /\ {6, 7, 8, 9} \subseteq spsr
    /\ spsr \cap {28, 29, 30, 31} = {}
    /\ spsr \subseteq {0, 2, 6, 7, 8, 9}

\* C15: add_segment with size = 0 fails with InvalidSize whatever the base
\* and the recorded segments are, and records no segment.
C15_ZeroSizeInvalid ==
    (memResult.op = "add_segment" /\ memResult.size = 0) =>
        (memResult.res = "InvalidSize" /\ segments = memResult.pre)

(***************************************************************************)
(* Claims: SharedMemory accesses                                           *)
(***************************************************************************)
\* the range [addr, addr + len) lies inside the segment
Inside(addr, len, segment) ==
    addr >= segment.base /\ addr + len <= segment.base + segment.size

InOneSegment(addr, len) ==
    \E i \in 1..Len(segments) : Inside(addr, len, segments[i])

\* the bytes of segment i that belong to [addr, addr + len)
InRange(i, j, addr, len) ==
    /\ segments[i].base + (j - 1) >= addr
    /\ segments[i].base + (j - 1) < addr + len

\* no byte outside [addr, addr + len) differs from the memory before the call
FrameOutside(addr, len) ==
    \A i \in 1..Len(bytes) : \A j \in 1..Len(bytes[i]) :
        ~InRange(i, j, addr, len) => bytes[i][j] = memResult.pre[i][j]

\* no segment runs up to the top of the address space
NoSegmentAtTop ==
    \A i \in 1..Len(segments) :
        segments[i].base + segments[i].size <= USIZE_MAX

TypedAccessContract ==
    /\ memResult.op = "write" =>
          IF InOneSegment(memResult.addr, memResult.size)
          THEN /\ memResult.res = "Ok"
               /\ ReadResult(segments, bytes, memResult.addr, memResult.size)
                     = [res |-> "Ok", value |-> memResult.value]
               /\ ReadBytesResult(segments, bytes, memResult.addr, 1).data
                     = <<BitsetField(memResult.value, 7, 0)>>
               /\ FrameOutside(memResult.addr, memResult.size)
          ELSE memResult.res # "Ok" /\ bytes = memResult.pre
    /\ memResult.op = "read" =>
          (~InOneSegment(memResult.addr, memResult.size)
              => memResult.res # "Ok")

\* C13: for every width of 1, 2, 4 and 8 bytes, a typed write to a range
\* inside one segment succeeds, a typed read of the same address then
\* returns the value written (little-endian), and no byte outside the range
\* changes; a typed access whose range is not inside one segment fails.
C13_TypedRoundTrip == TypedAccessContract

\* the same for segments that end below the top of the address space
C13_BelowTop == NoSegmentAtTop => TypedAccessContract

\* an eight-byte value whose top byte is set was written and is read back
C13_BelowTopWitness ==
    /\ memResult.op = "write"
    /\ memResult.size = 8
    /\ memResult.res = "Ok"
    /\ memResult.value = {56}
    /\ memResult.pre # bytes
    /\ \E i \in 1..Len(bytes) : bytes[i][8] = 1

BytesAccessContract ==
    (memResult.op \in {"read_bytes", "write_bytes"} /\ memResult.size > 0) =>
        /\ memResult.res = "Ok" <=> InOneSegment(memResult.addr, memResult.size)
        /\ memResult.res # "Ok" =>
              (memResult.res = "SegmentationFault" /\ bytes = memResult.pre)

\* C14: read_bytes and write_bytes of a non-zero length succeed only when
\* one segment contains the whole range and fail with SegmentationFault
\* otherwise, also when the range is mapped by two adjacent segments; a
\* failed write_bytes changes no byte.
C14_BytesSingleSegment == BytesAccessContract

\* the same for segments that end below the top of the address space
C14_BelowTop == NoSegmentAtTop => BytesAccessContract

\* a write over the boundary of two adjacent segments was refused
C14_BelowTopWitness ==
    /\ memResult.op = "write_bytes"
    /\ memResult.res = "SegmentationFault"
    /\ Len(segments) = 2
    /\ memResult.addr = 1
    /\ memResult.size = 2

(***************************************************************************)
(* Claims: device registration                                             *)
(***************************************************************************)
\* the ranges [b1, e1) and [b2, e2) have an address in common
Intersect(b1, e1, b2, e2) ==
    (IF b1 > b2 THEN b1 ELSE b2) < (IF e1 < e2 THEN e1 ELSE e2)

RegionsIntersect(r, q) ==
    Intersect(r.base_addr, r.base_addr + r.size,
              q.base_addr, q.base_addr + q.size)

\* C16: after any sequence of register_device calls the registered regions
\* [base, base + size) are pairwise disjoint, and every call whose new
\* region intersects a registered region fails with OverlappingRegion:
\* looking at the next region at or above the new base and at the nearest
\* region below it detects every intersection.
C16_RegionsDisjoint ==
    /\ \A b1, b2 \in DOMAIN regions :
          b1 # b2 => ~RegionsIntersect(regions[b1], regions[b2])
    /\ (mmioResult.op = "register_device"
        /\ \E b \in DOMAIN mmioResult.pre :
              Intersect(mmioResult.base, mmioResult.base + mmioResult.size,
                        b, b + mmioResult.pre[b].size))
       => (mmioResult.res = "OverlappingRegion" /\ regions = mmioResult.pre)

\* with a region above the new base registered, a call was refused because
\* of the region below the new base alone
C16_Witness ==
    /\ mmioResult.op = "register_device"
    /\ mmioResult.res = "OverlappingRegion"
    /\ \E b \in DOMAIN regions : b > mmioResult.base
    /\ \A b \in DOMAIN regions :
          b >= mmioResult.base =>
             ~Intersect(mmioResult.base, mmioResult.base + mmioResult.size,
                        b, b + regions[b].size)
    /\ \E b \in DOMAIN regions :
          /\ b < mmioResult.base
          /\ b + regions[b].size > mmioResult.base

(***************************************************************************)
(* PL011 claims                                                            *)
(***************************************************************************)
\* the last operation was a 4-byte write to the register at offset
UartWrote(offset) ==
    /\ uartResult.op = "write"
    /\ uartResult.offset = offset
    /\ uartResult.size = 4

TransmitEnabled(u) == {CR_UARTEN, CR_TXE} \subseteq u.cr

\* C17: a 4-byte DR write while CR has UARTEN or TXE clear returns success
\* and changes nothing in the device (nothing reaches the line buffer or the
\* sink); while both are set the write returns success and exactly one byte,
\* the low 8 bits of the written value, is appended to the line buffer, which
\* then stays buffered or is handed to the sink, and no other register or
\* FIFO changes.
C17_DrWriteGated ==
    UartWrote(UARTDR) =>
        LET pre    == uartResult.pre
            pushed == Append(pre.line_buffer, AsU8(uartResult.value))
        IN  /\ uartResult.res = "Ok"
            /\ ~TransmitEnabled(pre) => uart = pre
            /\ TransmitEnabled(pre) =>
                  /\ AsU8(uartResult.value) \in 0..255
                  /\ \/ uart.line_buffer = pushed /\ uart.output = pre.output
                     \/ /\ uart.output = pre.output \o pushed
                        /\ uart.line_buffer \in {<<>>, pushed}
                  /\ uartResult.sink = "ok" =>
                        uart.output \o uart.line_buffer = pre.output \o pushed
                  /\ [uart EXCEPT !.line_buffer = <<>>, !.output = <<>>]
                        = [pre EXCEPT !.line_buffer = <<>>, !.output = <<>>]

\* a write dropped because TXE is clear, after the sink has received a line
C17_Witness ==
    /\ UartWrote(UARTDR)
    /\ ~TransmitEnabled(uartResult.pre)
    /\ uartResult.pre.output # <<>>
    /\ uart = uartResult.pre

\* a delivered byte whose written value had a bit above the low 8 set
C17_DeliveredTruncated ==
    /\ UartWrote(UARTDR)
    /\ TransmitEnabled(uartResult.pre)
    /\ 8 \in uartResult.value
    /\ uart.line_buffer = Append(uartResult.pre.line_buffer, 72)

\* C18: a 4-byte write of 0x48 to DR of a PL011 in its constructed state (no
\* earlier write to CR) leaves the byte 0x48 in the line buffer, unflushed.
C18_ResetStateCapture ==
    (UartWrote(UARTDR) /\ uartResult.value = ToBitset(72, 0, 8)
        /\ uartResult.pre = Pl011Device_new)
    => (uart.line_buffer = <<72>> /\ uart.output = <<>>)

C19_CarriageReturnBuffered ==
    /\ UartWrote(UARTDR)
    /\ TransmitEnabled(uartResult.pre)
    /\ AsU8(uartResult.value) = 13
    /\ uart.line_buffer = Append(uartResult.pre.line_buffer, 13)
    /\ uart.output = uartResult.pre.output

\* C20: after a 4-byte write to LCR_H the FIFO depth is 16 when bit 4 of the
\* written value is set and 1 when it is clear, both FIFOs are empty, and FR
\* holds exactly TXFE|RXFE.
C20_LcrHClearsFifos ==
    UartWrote(UARTLCR_H) =>
        LET depth == IF LCR_H_FEN \in uartResult.value
                     THEN PL011_FIFO_DEPTH ELSE 1
        IN  /\ uart.rx_fifo_size = depth
            /\ uart.tx_fifo_size = depth
            /\ uart.rx_fifo = <<>>
            /\ uart.tx_fifo = <<>>
            /\ uart.flags = {FLAG_TXFE, FLAG_RXFE}

\* the last operation was a 4-byte read of the register at offset
UartReadAt(offset) ==
    /\ uartResult.op = "read"
    /\ uartResult.offset = offset
    /\ uartResult.size = 4

\* C21: the RX FIFO never holds more bytes than the current depth, which is
\* 16 when FEN is set in LCR_H and 1 otherwise; input_data appends its byte
\* at the back when the FIFO has room and changes nothing when it is full; a
\* DR read returns the byte at the front and removes exactly that byte, and
\* returns 0 on an empty FIFO.
C21_RxFifoBounded ==
    /\ Len(uart.rx_fifo) <= uart.rx_fifo_size
    /\ uart.rx_fifo_size
          = (IF LCR_H_FEN \in uart.lcr_h THEN PL011_FIFO_DEPTH ELSE 1)
    /\ uartResult.op = "input_data" =>
          LET pre == uartResult.pre
          IN  IF Len(pre.rx_fifo) >= pre.rx_fifo_size
              THEN uart = pre
              ELSE uart.rx_fifo
                      = Append(pre.rx_fifo, AsU8(uartResult.value))
    /\ UartReadAt(UARTDR) =>
          LET pre == uartResult.pre
          IN  /\ uartResult.res = "Ok"
              /\ IF pre.rx_fifo = <<>>
                 THEN uartResult.val = {} /\ uart.rx_fifo = <<>>
                 ELSE /\ uartResult.val = FromU8(Head(pre.rx_fifo))
                      /\ uart.rx_fifo = Tail(pre.rx_fifo)

\* with FIFOs enabled, the bytes 65 then 66 were input; the DR read returns
\* 65 and leaves 66 queued
C21_Witness ==
    /\ UartReadAt(UARTDR)
    /\ uartResult.pre.rx_fifo = <<65, 66>>
    /\ uartResult.val = FromU8(65)
    /\ uart.rx_fifo = <<66>>

\* input_data of 66 on a FIFO of depth 1 that holds 65 is dropped
C21_DroppedWhenFull ==
    /\ uartResult.op = "input_data"
    /\ uartResult.value = FromU8(66)
    /\ uartResult.pre.rx_fifo = <<65>>
    /\ uartResult.pre.rx_fifo_size = 1
    /\ uart.rx_fifo = <<65>>

\* C22: in every state between operations the flag register holds RXFE iff
\* the RX FIFO is empty, RXFF iff its length has reached the depth, TXFE iff
\* the TX FIFO is empty, TXFF iff its length has reached the depth, and no
\* other bit; the TX FIFO is empty, so an FR read returns TXFE set and TXFF
\* clear.
C22_FlagsMatchFifos ==
    /\ (FLAG_RXFE \in uart.flags) = (uart.rx_fifo = <<>>)
    /\ (FLAG_RXFF \in uart.flags) = (Len(uart.rx_fifo) >= uart.rx_fifo_size)
    /\ (FLAG_TXFE \in uart.flags) = (uart.tx_fifo = <<>>)
    /\ (FLAG_TXFF \in uart.flags) = (Len(uart.tx_fifo) >= uart.tx_fifo_size)
    /\ uart.flags \subseteq {FLAG_TXFE, FLAG_RXFF, FLAG_TXFF, FLAG_RXFE}
    /\ uart.tx_fifo = <<>>
    /\ UartReadAt(UARTFR) =>
          /\ uartResult.res = "Ok"
          /\ uartResult.val = uart.flags
          /\ FLAG_TXFE \in uartResult.val
          /\ FLAG_TXFF \notin uartResult.val

\* right after a DR write went through the TX FIFO, with a full RX FIFO of
\* depth 1: the flags are TXFE|RXFF
C22_Witness ==
    /\ UartWrote(UARTDR)
    /\ TransmitEnabled(uartResult.pre)
    /\ uart.line_buffer # uartResult.pre.line_buffer
    /\ uart.rx_fifo = <<65>>
    /\ uart.rx_fifo_size = 1
    /\ uart.flags = {FLAG_TXFE, FLAG_RXFF}

\* C23: reset leaves both FIFOs empty, FR = TXFE|RXFE, CR = TXE|RXE,
\* LCR_H = 0, IMSC = 0 and depth 1, the values a constructed device has in
\* these fields, and a second reset changes nothing.
C23_ResetState ==
    uartResult.op = "reset" =>
        /\ uart.rx_fifo = <<>>
        /\ uart.tx_fifo = <<>>
        /\ uart.flags = {FLAG_TXFE, FLAG_RXFE}
        /\ uart.cr = {CR_TXE, CR_RXE}
        /\ uart.lcr_h = {}
        /\ uart.imsc = {}
        /\ uart.rx_fifo_size = 1
        /\ uart.tx_fifo_size = 1
        /\ [uart EXCEPT !.output = <<>>, !.line_buffer = <<>>]
              = Pl011Device_new
        /\ Pl011_reset(uart) = uart

\* reset of a device with FIFOs enabled, a queued RX byte, transmit enabled
\* and IMSC written
C23_Witness ==
    /\ uartResult.op = "reset"
    /\ uartResult.pre.rx_fifo # <<>>
    /\ uartResult.pre.rx_fifo_size = PL011_FIFO_DEPTH
    /\ CR_UARTEN \in uartResult.pre.cr
    /\ uartResult.pre.imsc # {}
    /\ uartResult.pre.lcr_h # {}
    /\ uart.cr = {CR_TXE, CR_RXE}

\* the offsets of the PL011 register map: the registers, the stubs and the
\* identification range
Pl011RegisterMap ==
    {UARTDR, UARTFR, 36, 40, UARTLCR_H, UARTCR, UARTIMSC, 60, 64, UARTICR}
        \cup UART_PERIPH_ID_BASE..4092

\* C24: a read or write of a size other than 4 fails with InvalidSize at
\* every offset, inside the register map or not; a 4-byte read or write at
\* an offset outside the register map fails with UnmappedAccess carrying
\* that offset; neither changes the device.
C24_AccessErrors ==
    uartResult.op \in {"read", "write"} =>
        /\ uartResult.size # 4 =>
              /\ uartResult.res = "InvalidSize"
              /\ uartResult.arg = uartResult.size
              /\ uart = uartResult.pre
        /\ (uartResult.size = 4 /\ uartResult.offset \notin Pl011RegisterMap)
              => /\ uartResult.res = "UnmappedAccess"
                 /\ uartResult.arg = uartResult.offset
                 /\ uart = uartResult.pre

\* an 8-byte read outside the register map, on a device holding RX data
C24_Witness ==
    /\ uartResult.op = "read"
    /\ uartResult.size = 8
    /\ uartResult.offset \notin Pl011RegisterMap
    /\ uartResult.res = "InvalidSize"
    /\ uart.rx_fifo # <<>>

\* a 4-byte write outside the register map
C24_UnmappedWrite ==
    /\ uartResult.op = "write"
    /\ uartResult.size = 4
    /\ uartResult.offset \notin Pl011RegisterMap
    /\ uartResult.res = "UnmappedAccess"
    /\ uartResult.arg = 256

(***************************************************************************)
(* PL061 claims                                                            *)
(***************************************************************************)
\* the sizes read and write accept
GpioValidSizes == {1, 2, 4, 8}

\* the last operation was an accepted write at offset
GpioWrote(offset) ==
    /\ gpioResult.op = "write"
    /\ gpioResult.offset = offset
    /\ gpioResult.size \in GpioValidSizes

\* bits 9..2 of the offset: (offset >> 2) & 0xFF
DataMask(offset) == {i \in 0..7 : (offset \div 2^(i + 2)) % 2 = 1}

\* C25: an accepted write at an offset in 0x000..0x3FC with
\* mask = (offset >> 2) & 0xFF and direction d leaves
\* data = (data & ~(mask & d)) | (v & (mask & d)) and every other register
\* as it was; data bits of input pins and bits outside the mask keep their
\* value.
C25_MaskedDataWrite ==
    (gpioResult.op = "write" /\ gpioResult.size \in GpioValidSizes
        /\ gpioResult.offset \in 0..1020)
    => LET pre  == gpioResult.pre
           both == DataMask(gpioResult.offset) \cap pre.direction
       IN  /\ gpioResult.res = "Ok"
           /\ gpio.data = (pre.data \ both) \cup (gpioResult.value \cap both)
           /\ gpio.data \ both = pre.data \ both
           /\ gpio.direction = pre.direction
           /\ gpio.interrupt_enable = pre.interrupt_enable
           /\ gpio.afsel = pre.afsel

\* with pins 0 and 2 outputs and pin 1 high from an earlier write, 0x00
\* written through mask 0x55 keeps pin 1 and clears the rest
C25_Witness ==
    /\ GpioWrote(340)
    /\ gpioResult.value = {}
    /\ gpioResult.pre.direction = {0, 2}
    /\ gpioResult.pre.data = {0, 1, 2}
    /\ gpio.data = {1}

\* the identification bytes: peripheral ID, then PrimeCell ID
Pl061IdBytes == <<97, 16, 4, 0, 13, 240, 5, 177>>

\* C26: an accepted read at 0xFE0 + 4*i, i in 0..7, returns the i-th
\* identification byte: 0x61, 0x10, 0x04, 0x00, 0x0D, 0xF0, 0x05, 0xB1.
C26_IdRegisters ==
    \A i \in 0..7 :
        (gpioResult.op = "read" /\ gpioResult.size \in GpioValidSizes
            /\ gpioResult.offset = GPIO_PERIPH_ID_BASE + 4 * i)
        => (gpioResult.res = "Ok"
            /\ gpioResult.val = ToBitset(Pl061IdBytes[i + 1], 0, 8))

\* the field of the device that holds the register at offset
GpioRegister(g, offset) ==
    IF offset = GPIODIR THEN g.direction
    ELSE IF offset = GPIOIE THEN g.interrupt_enable
    ELSE g.afsel

\* C27: for DIR, IE and AFSEL and each accepted size, a write of v leaves
\* v & 0xFF in the register and changes no other register; a read returns
\* the register without changing it; every operation other than a write to
\* the register or reset leaves the register as it was.
C27_DirectRegisters ==
    \A reg \in {GPIODIR, GPIOIE, GPIOAFSEL} :
        /\ GpioWrote(reg) =>
              /\ gpioResult.res = "Ok"
              /\ GpioRegister(gpio, reg) = gpioResult.value \cap (0..7)
              /\ gpio.data = gpioResult.pre.data
              /\ \A other \in {GPIODIR, GPIOIE, GPIOAFSEL} \ {reg} :
                    GpioRegister(gpio, other)
                       = GpioRegister(gpioResult.pre, other)
        /\ (gpioResult.op = "read" /\ gpioResult.offset = reg
               /\ gpioResult.size \in GpioValidSizes)
              => /\ gpioResult.res = "Ok"
                 /\ gpioResult.val = GpioRegister(gpioResult.pre, reg)
                 /\ gpio = gpioResult.pre
        /\ (gpioResult.op \in {"read", "write"} /\ ~GpioWrote(reg))
              => GpioRegister(gpio, reg) = GpioRegister(gpioResult.pre, reg)

\* a 1-byte read of AFSEL returns 0x05, the low byte of the 0x105 written
\* earlier, while DIR holds another value
C27_Witness ==
    /\ gpioResult.op = "read"
    /\ gpioResult.offset = GPIOAFSEL
    /\ gpioResult.size = 1
    /\ gpioResult.val = {0, 2}
    /\ gpio.direction = 0..7
    /\ gpio.data # {}

(***************************************************************************)
(* Syndrome decoding claims                                                *)
(***************************************************************************)
\* the 6-bit values that enum ExceptionClass does not name
UnnamedEc == {2, 11, 15, 16, 30, 31, 35, 41, 42, 43, 46, 54, 55, 57, 59, 62, 63}

\* C28: exception_class returns a class for every syndrome, the class
\* depends on bits 31..26 only, EC 0b010110 is HVC (AArch64), 0b100100 and
\* 0b100101 are Data Abort (lower / same EL), 0b011000 is the trapped
\* system-register access, and an EC the enumeration does not name comes
\* back as Unrecognized carrying that EC.
C28_ExceptionClassTotal ==
    decoded.decoder = "EsrEl2" =>
        LET ec  == BitsetField(decoded.syndrome, 31, 26)
            cls == decoded.exception_class
        IN  /\ cls.name # "panic"
            /\ cls = EsrEl2_exception_class(decoded.syndrome \cap (26..31))
            /\ ec = 22 => cls.name = "HvcAArch64"
            /\ ec = 36 => cls.name = "DataAbortLowerEl"
            /\ ec = 37 => cls.name = "DataAbortSameEl"
            /\ ec = 24 => cls.name = "TrappedSysregAArch64"
            /\ (cls.name = "Unrecognized") = (ec \in UnnamedEc)
            /\ cls.name = "Unrecognized" => cls.raw = ec

\* an unnamed EC below set IL/ISS bits and above set ISS2 bits
C28_Witness ==
    /\ decoded.decoder = "EsrEl2"
    /\ decoded.syndrome = {27} \cup {0, 24, 25, 32}
    /\ decoded.exception_class = [name |-> "Unrecognized", raw |-> 2]

\* a data abort from a lower EL with ISS bits set
C28_DataAbortDecoded ==
    /\ decoded.decoder = "EsrEl2"
    /\ decoded.syndrome = {31, 28} \cup {0, 24, 25, 32}
    /\ decoded.exception_class.name = "DataAbortLowerEl"

\* C29: for every data-abort ISS word the access size handed to the bus is
\* 1, 2, 4, 8 bytes for SAS = 0, 1, 2, 3, the access is a write iff bit 6
\* is set, and the transfer register is X<SRT> for SRT in 0..30 and the zero
\* register for SRT = 31, whatever the other bits of the word are.
C29_DataAbortDecode ==
    decoded.decoder = "DataAbortISS" =>
        LET sas == (word \div 2^22) % 4
            srt == (word \div 2^16) % 32
            wnr == (word \div 2^6) % 2
        IN  /\ decoded.access_size # "panic"
            /\ AccessSizeBytes(decoded.access_size) = 2^sas
            /\ decoded.is_write = (wnr = 1)
            /\ decoded.access_register
                  = (IF srt = 31 THEN [kind |-> "ZeroRegister", index |-> 31]
                     ELSE [kind |-> "Register", index |-> srt])

\* a doubleword write from the zero register, decoded from a word with
\* every explored bit outside SAS, SRT and WnR set
C29_Witness ==
    /\ decoded.decoder = "DataAbortISS"
    /\ word = 3 * 2^22 + 31 * 2^16 + 2^6
                + 2^30 + 2^25 + 2^24 + 2^21 + 2^15 + 2^7 + 2^5 + 1
    /\ decoded.access_size = "DoubleWord"
    /\ decoded.is_write
    /\ decoded.access_register.kind = "ZeroRegister"

\* a 4-byte read into X2, decoded from a word with ISV clear
C29_WordReadX2 ==
    /\ decoded.decoder = "DataAbortISS"
    /\ word = 2 * 2^22 + 2 * 2^16
    /\ decoded.access_size = "Word"
    /\ ~decoded.is_write
    /\ decoded.access_register = [kind |-> "Register", index |-> 2]

(***************************************************************************)
(* SharedMemory aligned accessors                                          *)
(***************************************************************************)
\* C30: read_aligned and write_aligned of a type of 1, 2, 4 or 8 bytes fail
\* with InvalidAlignment when the address is not a multiple of the type's
\* alignment, and a rejected write_aligned leaves every byte as it was; at
\* an aligned address they return what read and write return there, and
\* write_aligned leaves the memory that write leaves.
C30_AlignedAccess ==
    LET aligned == memResult.addr % memResult.size = 0
    IN  /\ memResult.op = "read_aligned" =>
              IF aligned
              THEN [res |-> memResult.res, value |-> memResult.value]
                      = ReadResult(segments, memResult.pre, memResult.addr,
                                   memResult.size)
              ELSE memResult.res = "InvalidAlignment"
        /\ memResult.op = "write_aligned" =>
              IF aligned
              THEN [res |-> memResult.res, mem |-> bytes]
                      = WriteResult(segments, memResult.pre, memResult.addr,
                                    memResult.value, memResult.size)
              ELSE memResult.res = "InvalidAlignment" /\ bytes = memResult.pre

\* a u16 write at an odd address inside a segment that holds data is
\* rejected
C30_Witness ==
    /\ memResult.op = "write_aligned"
    /\ memResult.addr = 1
    /\ memResult.size = 2
    /\ InOneSegment(1, 2)
    /\ memResult.res = "InvalidAlignment"
    /\ \E i \in DOMAIN bytes : \E j \in DOMAIN bytes[i] : bytes[i][j] # 0

\* an aligned u16 read returns what an aligned u16 write stored
C30_AlignedRoundTrip ==
    /\ memResult.op = "read_aligned"
    /\ memResult.addr = 2
    /\ memResult.size = 2
    /\ memResult.res = "Ok"
    /\ memResult.value = {8}

(***************************************************************************)
(* SPSR_EL3 accessors                                                      *)
(***************************************************************************)
\* C31: after set_stack_pointer(b) the getter stack_pointer_is_el0 returns b
\* and no bit other than M[0] has changed; stack_pointer_is_el0 is false
\* for M[3:0] = 0b0101 and 0b1001; exception_level equals M[3:2], and after
\* set_exception_level(e) it is e & 3 with no bit outside M[3:2] changed.
C31_StackPointerRoundTrip ==
    /\ spsrResult.op = "set_stack_pointer" =>
          /\ SpsrEl3_stack_pointer_is_el0(spsr) = spsrResult.arg
          /\ spsr \ {0} = spsrResult.pre \ {0}
    /\ BitsetField(spsr, 3, 0) \in {5, 9}
          => ~SpsrEl3_stack_pointer_is_el0(spsr)
    /\ SpsrEl3_exception_level(spsr) = BitsetField(spsr, 3, 2)
    /\ spsrResult.op = "set_exception_level" =>
          /\ SpsrEl3_exception_level(spsr) = spsrResult.arg % 4
          /\ spsr \ {2, 3} = spsrResult.pre \ {2, 3}

(***************************************************************************)
(* Run loop: unknown system registers, access widths                       *)
(***************************************************************************)
\* C32: once a trapped system-register exit whose tuple names no emulated
\* register has been serviced, the loop has stopped without a panic, no GPR
\* has changed and PC is the PC of the exit.
C32_UnknownSysRegStops ==
    (Serviced /\ ExitIsSysReg /\ SysRegTuple(ExitIss) \notin CounterTuples)
    => /\ loc = "exited"
       /\ outcome.returned # "panic"
       /\ gpr = exit.gpr
       /\ pc = exit.pc

\* value modulo 2^(8 * size); the values of the model are below 2^31, so a
\* width of 4 or 8 bytes keeps them
TruncateTo(value, size) == IF size >= 4 THEN value ELSE value % 2^(8 * size)

\* C33: once a Data-Abort exit of size s has been serviced, a write handed
\* handle_write the value of the transfer GPR modulo 2^(8*s), and a read
\* that succeeded left a value below 2^(8*s) in the transfer GPR.
C33_WidthTruncation ==
    (Serviced /\ ExitIsDataAbort /\ Len(busLog) = 1)
    => LET vreg == DataAbortISS_access_register(ExitIss)
           s    == AccessSizeBytes(DataAbortISS_access_size(ExitIss))
       IN  /\ DataAbortISS_is_write(ExitIss) =>
                busLog[1].value
                   = TruncateTo(get_register_value(exit.gpr, vreg), s)
           /\ (~DataAbortISS_is_write(ExitIss) /\ busLog[1].res = "Ok"
                  /\ vreg.kind = "Register")
                => gpr[vreg.index] = TruncateTo(gpr[vreg.index], s)

(***************************************************************************)
(* Claims: segment bounds                                                  *)
(***************************************************************************)
\* C34: every recorded segment has a size above zero and base + size does
\* not pass the top of the address space; every range Segment::contains
\* accepts lies inside the bytes of the segment, and read_bytes and
\* write_bytes never index out of bounds.
C34_SegmentsInBounds ==
    /\ \A i \in 1..Len(segments) :
          /\ segments[i].size > 0
          /\ segments[i].base + segments[i].size <= USIZE_MAX
          /\ \A addr \in 0..USIZE_MAX, len \in 0..MaxSegSize :
                SegmentContains(segments[i], addr, len)
                   => (addr - segments[i].base) + len <= Len(bytes[i])
    /\ memResult.op \in {"read_bytes", "write_bytes"}
          => memResult.res # "panic"

(***************************************************************************)
(* Claims: the two data-abort decoders                                     *)
(***************************************************************************)
\* C35: on every raw ISS word the decoder of regs/esr_el2.rs and the decoder
\* of regs/iss/data_abort.rs give the same access size and the same
\* is_write, the same transfer register for SRT in 0..30, and neither
\* panics where the other returns.
C35_DecodersAgree ==
    decoded.decoder \in {"DataAbortISS", "esr_el2::DataAbortISS"} =>
        /\ EsrEl2_DataAbortISS_access_size(word)
              = DataAbortISS_access_size(word)
        /\ EsrEl2_DataAbortISS_is_write(word) = DataAbortISS_is_write(word)
        /\ DataAbortISS_srt(word) \in 0..30 =>
              EsrEl2_DataAbortISS_access_register(word)
                 = DataAbortISS_access_register(word)
        /\ EsrEl2_DataAbortISS_access_register(word).kind = "panic"
              <=> DataAbortISS_access_register(word).kind = "panic"

(***************************************************************************)
(* Claims: PL011 transmit path as a whole                                  *)
(***************************************************************************)
\* the bytes the sink holds once the device has been dropped with a sink
\* that does not fail
SinkAfterDrop(u) == Pl011_flush_line_buffer(u, "ok").output

\* C36: with a sink that does not fail, every operation leaves the bytes of
\* the sink followed by the line buffer as they were, except a DR write made
\* while UARTEN and TXE are set, which appends its low byte: no accepted
\* byte is lost, duplicated or reordered, and the flush on drop leaves the
\* sink holding all of them.
C36_NoByteLost ==
    (uartResult.op # "none" /\ uartResult.sink = "ok") =>
        /\ SinkAfterDrop(uart) = uart.output \o uart.line_buffer
        /\ SinkAfterDrop(uart) =
              IF /\ UartWrote(UARTDR)
                 /\ uartResult.res = "Ok"
                 /\ TransmitEnabled(uartResult.pre)
              THEN Append(SinkAfterDrop(uartResult.pre),
                          BitsetField(uartResult.value, 7, 0))
              ELSE SinkAfterDrop(uartResult.pre)

(***************************************************************************)
(* Claims: isolation of bus operations, registration                       *)
(***************************************************************************)
\* one handle_read or handle_write step: the regions stay, the state of
\* every device the call was not routed to stays, and a call the bus
\* rejected leaves the state of every device
BusCallIsolated ==
    mmioResult'.op \in {"handle_read", "handle_write"} =>
        /\ regions' = regions
        /\ DOMAIN devReg' = DOMAIN devReg
        /\ \A d \in DOMAIN devReg :
              (\A i \in mmioResult'.invoked : i.device # d)
                 => devReg'[d] = devReg[d]
        /\ mmioResult'.res \in {"InvalidSize", "InvalidAlignment",
                                "UnmappedAccess"}
              => devReg' = devReg

\* C37: a handle_read or handle_write routed to one device changes no state
\* of any other registered device and never changes the set of regions; a
\* call the bus rejects with InvalidSize, InvalidAlignment or UnmappedAccess
\* changes no device state.
C37_BusIsolation == [][BusCallIsolated]_vars

\* a write was routed to one of two registered devices and the other one
\* holds a different value
C37_Witness ==
    /\ mmioResult.op = "handle_write"
    /\ mmioResult.res = "Ok"
    /\ \E i \in mmioResult.invoked :
          \E b \in DOMAIN regions :
             /\ regions[b].device # i.device
             /\ regions[b].size > 0
             /\ devReg[regions[b].device] # devReg[i.device]

\* a write was rejected by the bus while a device held a written value
C37_RejectedWithState ==
    /\ mmioResult.op = "handle_write"
    /\ mmioResult.res \in {"InvalidSize", "InvalidAlignment", "UnmappedAccess"}
    /\ \E b \in DOMAIN regions : devReg[regions[b].device] # 0

\* C38: after a successful register_device every region registered before is
\* still registered with the same base, size and device, for every device
\* size and every base; a failed call leaves the map as it was.
C38_RegisterKeepsRegions ==
    mmioResult.op = "register_device" =>
        IF mmioResult.res = "Ok"
        THEN \A b \in DOMAIN mmioResult.pre :
                b \in DOMAIN regions /\ regions[b] = mmioResult.pre[b]
        ELSE regions = mmioResult.pre

====
